---- MODULE Spec2Model ----
(***************************************************************************)
(* Aggregator, alert gate and broadcast throttle of the perp-arbitrage     *)
(* backend.                                                                *)
(*                                                                         *)
(* Two variants of the aggregator exist in the repository.  The variable   *)
(* impl says which one a behaviour runs:                                   *)
(*   "ts"  aggregator.service.ts (alert.service.ts lines 48-315): one      *)
(*         handleUpdate() per connector event, quotes carry a timestamp;   *)
(*   "js"  aggregator.service.js: one handler per venue, fed with the      *)
(*         whole list a push frame or a poll response carries.             *)
(* Both share saveAlert() (alert.service.ts lines 6-36) and the throttle.  *)
(*                                                                         *)
(* Time is Date.now() in milliseconds.  Prices are integers in tenths of   *)
(* a quote-currency unit (1002 is 100.2).  A spread is held in basis       *)
(* points, that is in hundredths of a percent (180 is 1.80%).              *)
(***************************************************************************)
EXTENDS Integers, Sequences, FiniteSets

VARIABLES
    impl,               \* which aggregator variant runs
    now,                \* Date.now()
    started,            \* startScheduler() has run (handlers are wired)
    PRICE_CACHE,        \* symbol -> AggregatedPair
    wsBroadcaster,      \* TRUE when a broadcast sink is registered
    lastDbSave,         \* symbol -> time of the last saveSpread(), 0 = none
    lastBroadcastTime,
    broadcastPending,
    timers,             \* due times of the pending setTimeout callbacks
    alertCache,         \* symbol -> time of the last persisted alert, 0 = none
    dbQueue,            \* db.run() statements whose callback has not run yet
    alerts,             \* rows of the alerts table
    events,             \* number of connector events ingested so far
    saveAlertResult,    \* symbol -> outcome of saveAlert() in the last handler
    failed,             \* symbol -> the last failed alert write and the retry after it
    sink,               \* what the broadcast sink has observed
    win,                \* the cache-change signals of the current throttle window
    ignored,            \* the symbols of the updates ensurePair() has turned away
    inbox,              \* listener calls of the current emit that have not run yet
    stages,             \* what the handler call that has just run did, in its order
    priceMetrics,       \* the rows of the last saveTopPairsToDb() batch
    scheduler,          \* listeners, connectors, sockets, poll timers, start calls
    polls,              \* js: polled venue -> its REST requests in flight
    hybrid,             \* ts: connector -> state of its hybrid connector
    adapter,            \* the last fetchMarkets() call that has returned: venue, response, outcome
    push,               \* js: push service -> its socket, counter and timers
    vestPull,           \* the fetchMarkets() invocations of Vest that have not returned
    fetching            \* the fetchMarkets() call of an adapter that has not returned

vars == << impl, now, started, PRICE_CACHE, wsBroadcaster, lastDbSave,
           lastBroadcastTime, broadcastPending, timers, alertCache, dbQueue,
           alerts, events, saveAlertResult, failed, sink, win, ignored,
           inbox, stages, priceMetrics, scheduler, polls, hybrid, adapter,
           push, vestPull, fetching >>

----------------------------------------------------------------------------
(* Program constants *)

CACHE_TTL == 60000
ALERT_THRESHOLD == 50
STALE_THRESHOLD == 30000
DB_SAVE_THROTTLE == 5000
BROADCAST_THROTTLE == 1000
TOP_PAIRS == 5
maxReconnectAttempts == 5
reconnectDelay == 3000
RECONNECT_CAP == 30000
maxReconnectAttemptsWS == 20
VEST_DELAY_STEPS == 5
RETRY_DELAY == 60000
BATCH_DELAY == 100
WS_TIMEOUT == 15000
POLL_INTERVAL == 2000

\* The value calculateSpreads gives realSpread when bestBid or bestAsk is
\* missing, in basis points.
NO_SIGNAL == -999999

\* A field of a venue record that was never assigned (JavaScript undefined).
UNDEFINED == -888888

\* ALLOWED_SYMBOLS, in its configured order, and one symbol outside of it.
ALLOWED_SYMBOLS == << "BTC", "ETH" >>
Allowed == { ALLOWED_SYMBOLS[i] : i \in 1..Len(ALLOWED_SYMBOLS) }
AllSymbols == Allowed \cup { "DOGE" }

\* The venue keys of an AggregatedPair, per variant.
Exchanges(i) == IF i = "ts" THEN { "vest", "lighter", "paradex", "extended" }
                ELSE { "vest", "lighter", "paradex" }

\* Venue priority for ties on the best price (first wins).
VenuePriority == << "vest", "lighter", "paradex", "extended" >>

----------------------------------------------------------------------------
(* Bounds of the exploration *)

MaxFine == 2        \* fine clock steps inside one coarse period
MaxCoarse == 1      \* coarse clock steps
MaxEvents == 3      \* connector events ingested in one behaviour
MaxStarts == 2      \* calls of startScheduler()
MaxStops == 2       \* calls of stopScheduler() since the last start
MaxSave == 1        \* clock steps of one persistence throttle inside a coarse period
MaxRecords == 2     \* records of one venue response
MaxPings == 2       \* keep-alives in a row that no message answers
MaxSymbols == 5     \* symbols one Vest ticker response names
MaxTicks == 1       \* clock steps to the next tick of a poll timer
MaxOverlap == 2     \* requests of one polled venue, or fetchMarkets() invocations of Vest, under way at once

Epoch == 2 * CACHE_TTL
FineStep == BROADCAST_THROTTLE \div 2
CoarseStep == STALE_THRESHOLD

\* The quotes the connectors deliver, <<venue, symbol, bid, ask, lag, source>>:
\* the ts connectors stamp a quote with its time (now - lag) and with the
\* transport it came by; the js handlers read symbol, bid and ask alone.
\* AlertFeed holds spreads that reach the alert threshold: across venues
\* (paradex 100/100.2 with vest 102/102.5) and on one venue (a crossed book).
\* QuietFeed holds none.  Each has a symbol outside the allow-list.
AlertFeed == { << "paradex", "BTC", 1000, 1002, 0, "ws" >>,
               << "vest", "BTC", 1020, 1025, 0, "rest" >>,
               << "vest", "ETH", 1020, 1002, 0, "rest" >>,
               << "paradex", "DOGE", 1020, 1002, 0, "ws" >> }

QuietFeed == { << "paradex", "BTC", 1000, 1002, 0, "ws" >>,
               << "vest", "BTC", 990, 1005, 0, "rest" >>,
               << "lighter", "ETH", 1000, 1002, 0, "rest" >>,
               << "paradex", "DOGE", 1000, 1002, 0, "ws" >> }

\* A quote, the same quote one staleness window old, a better bid on another
\* venue, another symbol.
CacheFeed == { << "paradex", "BTC", 1000, 1002, 0, "ws" >>,
               << "paradex", "BTC", 1000, 1002, CoarseStep, "ws" >>,
               << "vest", "BTC", 1001, 1004, 0, "rest" >>,
               << "vest", "ETH", 1001, 1003, 0, "rest" >> }

\* One quote of each venue that has a handler, none that reaches the alert
\* threshold.
SinkFeed == { << "paradex", "BTC", 1000, 1002, 0, "ws" >>,
              << "vest", "BTC", 990, 1005, 0, "rest" >>,
              << "lighter", "ETH", 1000, 1002, 0, "rest" >> }

LifeFeed == { << "paradex", "BTC", 1000, 1002, 0, "ws" >>,
              << "vest", "BTC", 1001, 1004, 0, "rest" >> }

Feed == AlertFeed \cup QuietFeed

FeedOf(feed, ex) == { f \in feed : f[1] = ex }

\* The lists a push frame or a poll response of the js variant carries: none,
\* one market, or one market for each of two symbols.
Batches(feed, ex) ==
    { << >> } \cup { << f >> : f \in FeedOf(feed, ex) }
    \cup { << f, g >> : f \in { x \in FeedOf(feed, ex) : x[2] = "BTC" },
                        g \in { x \in FeedOf(feed, ex) : x[2] # "BTC" } }

----------------------------------------------------------------------------
(* Spreads.  A price is held in tenths; a spread is held exactly, as the    *)
(* fraction num / den of basis points (hundredths of a percent), so that    *)
(* two spreads compare as the numbers of the program do.  den = 0 is a      *)
(* realSpread that was never assigned: it reads as undefined, and every     *)
(* comparison of the code with it (> -10, < 50, >= 0.5) is false.           *)

Bps(n) == [ num |-> n, den |-> 1 ]

Unassigned == [ num |-> 0, den |-> 0 ]

\* How a / b compares with c / d (b, d > 0): 1 when it is greater, -1 when
\* it is less, 0 when the two are equal.  The whole parts decide, or else
\* the fractional parts do, compared through their reciprocals.
RECURSIVE Compare(_, _, _, _)
Compare(a, b, c, d) ==
    IF a \div b > c \div d THEN 1
    ELSE IF a \div b < c \div d THEN -1
    ELSE IF a % b = 0 /\ c % d = 0 THEN 0
    ELSE IF a % b = 0 THEN -1
    ELSE IF c % d = 0 THEN 1
    ELSE Compare(d, c % d, b, a % b)

\* a > b
Greater(a, b) ==
    a.den > 0 /\ b.den > 0 /\ Compare(a.num, a.den, b.num, b.den) = 1

\* a >= b
AtLeast(a, b) ==
    a.den > 0 /\ b.den > 0 /\ Compare(a.num, a.den, b.num, b.den) >= 0

\* b.realSpread - a.realSpread is 0: the sort keeps the order of the two.
SameSpread(a, b) ==
    a.den > 0 /\ b.den > 0 /\ Compare(a.num, a.den, b.num, b.den) = 0

\* The spread in whole basis points, rounded down.
Floor(a) == a.num \div a.den

----------------------------------------------------------------------------
(* Price cache *)

EmptyQuote == [ bid |-> 0, ask |-> 0, timestamp |-> 0, source |-> "none" ]

\* The ts variant seeds realSpread: 0.  The js variant seeds no realSpread at
\* all: the field reads as undefined.
createPair(symbol) ==
    [ symbol |-> symbol,
      quotes |-> [ ex \in Exchanges(impl) |-> EmptyQuote ],
      bestBid |-> 0, bestAsk |-> 0,
      bestBidEx |-> "none", bestAskEx |-> "none",
      realSpread |-> IF impl = "ts" THEN Bps(0) ELSE Unassigned ]

\* ensurePair without its allow-list test.
ensurePairAny(cache, symbol) ==
    IF symbol \in DOMAIN cache THEN cache
    ELSE [ s \in DOMAIN cache \cup { symbol } |->
             IF s = symbol THEN createPair(symbol) ELSE cache[s] ]

\* The cache after ensurePair(symbol); the caller returns early when the
\* symbol is not allow-listed.
ensurePair(cache, symbol) ==
    IF symbol \notin Allowed THEN cache
    ELSE IF symbol \in DOMAIN cache THEN cache
    ELSE [ s \in DOMAIN cache \cup { symbol } |->
             IF s = symbol THEN createPair(symbol) ELSE cache[s] ]

\* isFresh with the edge of the window outside.
isFreshStrict(timestamp) ==
    timestamp > 0 /\ (now - timestamp) < STALE_THRESHOLD

\* isFresh without its age test.
isFreshNoAge(timestamp) == timestamp > 0

isFresh(timestamp) ==
    timestamp > 0 /\ (now - timestamp) <= STALE_THRESHOLD

getPriceCache(cache) ==
    [ s \in { a \in Allowed : a \in DOMAIN cache } |-> cache[s] ]

----------------------------------------------------------------------------
(* Spread engine: calculateSpreads(cache, isValid) of spread.service, which *)
(* recomputes every pair of the cache in place.                            *)

\* isValid of a ts variant that passes no predicate either.
isValidAlways(q) == TRUE

\* isValid as each variant passes it: the ts variant passes isFresh, the js
\* variant passes no predicate.
isValid(q) == IF impl = "ts" THEN isFresh(q.timestamp) ELSE TRUE

Usable(pair) ==
    { ex \in DOMAIN pair.quotes :
        /\ isValid(pair.quotes[ex])
        /\ pair.quotes[ex].bid > 0
        /\ pair.quotes[ex].ask > 0 }

\* The venue of highest priority among the candidates.
FirstByPriority(cands) ==
    LET idx == CHOOSE i \in 1..Len(VenuePriority) :
                 /\ VenuePriority[i] \in cands
                 /\ \A j \in 1..(i - 1) : VenuePriority[j] \notin cands
    IN VenuePriority[idx]

MaxBid(pair, F) ==
    CHOOSE b \in { pair.quotes[ex].bid : ex \in F } :
        \A ex \in F : pair.quotes[ex].bid <= b

MinAsk(pair, F) ==
    CHOOSE a \in { pair.quotes[ex].ask : ex \in F } :
        \A ex \in F : pair.quotes[ex].ask >= a

\* (bestBid - bestAsk) / bestAsk * 100.
SpreadOf(bestBid, bestAsk) == [ num |-> (bestBid - bestAsk) * 10000, den |-> bestAsk ]

recalcPair(pair) ==
    LET F == Usable(pair) IN
    IF F = {} THEN
        [ pair EXCEPT !.bestBid = 0, !.bestAsk = 0,
                      !.bestBidEx = "none", !.bestAskEx = "none",
                      !.realSpread = Bps(NO_SIGNAL) ]
    ELSE
        LET bb == MaxBid(pair, F)
            ba == MinAsk(pair, F)
        IN [ pair EXCEPT
               !.bestBid = bb, !.bestAsk = ba,
               !.bestBidEx = FirstByPriority({ ex \in F : pair.quotes[ex].bid = bb }),
               !.bestAskEx = FirstByPriority({ ex \in F : pair.quotes[ex].ask = ba }),
               !.realSpread = SpreadOf(bb, ba) ]

calculateSpreads(cache) == [ s \in DOMAIN cache |-> recalcPair(cache[s]) ]

----------------------------------------------------------------------------
(* Alert gate: saveAlert(opportunity)                                      *)

\* The dedup test of saveAlert: a truthy last-alert time within the TTL.
TooSoon(symbol) ==
    alertCache[symbol] # 0 /\ (now - alertCache[symbol] < CACHE_TTL)

\* saveAlert whose dedup branch resolves without returning.
saveAlertRunsAlways(symbol) == TRUE

\* Whether saveAlert(pair) goes on to db.run().
saveAlertRuns(symbol) == ~TooSoon(symbol)

\* What the promise of saveAlert(pair) is at the moment the call returns.
saveAlertResolves(symbol) == IF TooSoon(symbol) THEN "null" ELSE "pending"

\* The row with the buy side and the sell side exchanged.
AlertRowSwapped(pair) ==
    [ timestamp |-> now,
      symbol |-> pair.symbol,
      spread |-> pair.realSpread,
      exchange_buy |-> pair.bestBidEx,
      exchange_sell |-> pair.bestAskEx,
      price_buy |-> pair.bestBid,
      price_sell |-> pair.bestAsk ]

\* The row db.run() is given.
AlertRow(pair) ==
    [ timestamp |-> now,
      symbol |-> pair.symbol,
      spread |-> pair.realSpread,
      exchange_buy |-> pair.bestAskEx,
      exchange_sell |-> pair.bestBidEx,
      price_buy |-> pair.bestAsk,
      price_sell |-> pair.bestBid ]

----------------------------------------------------------------------------
(* Broadcast throttle                                                      *)

\* A trailing setTimeout with no delay.
TrailingDelayNone(timeSinceLast) == 0

\* The delay of the trailing setTimeout.
TrailingDelay(timeSinceLast) == BROADCAST_THROTTLE - timeSinceLast

\* Whether throttledBroadcast() broadcasts at once.
LeadingEdge(timeSinceLast) == timeSinceLast >= BROADCAST_THROTTLE

\* Whether performBroadcast() hands the snapshot to the sink.
SinkInvoked(cache) ==
    wsBroadcaster /\ DOMAIN getPriceCache(cache) # {}

\* The sink's record after a call of performBroadcast() on the cache.
SinkAfter(cache, sk) ==
    IF SinkInvoked(cache)
    THEN [ sk EXCEPT !.prev = sk.last, !.last = now,
                     !.snapshot = getPriceCache(cache),
                     !.waitingSince = 0 ]
    ELSE sk

\* The sink's record after a call of performBroadcast() in which the sink
\* has thrown: it was invoked and handed the snapshot.
SinkThrew(cache, sk) ==
    [ sk EXCEPT !.prev = sk.last, !.last = now,
                !.snapshot = getPriceCache(cache),
                !.waitingSince = 0 ]

\* throttledBroadcast() on the cache calls performBroadcast() at once and
\* performBroadcast() calls the sink.
SinkReached(cache) ==
    /\ ~broadcastPending
    /\ LeadingEdge(now - lastBroadcastTime)
    /\ SinkInvoked(cache)

----------------------------------------------------------------------------
(* updateAndRecalculate(), on the cache the handler has written to         *)

\* The pairs the loop of updateAndRecalculate looks at, in Object.values order.
WithBoth(cache) ==
    SelectSeq(ALLOWED_SYMBOLS,
              LAMBDA s : s \in DOMAIN cache /\ cache[s].bestBid > 0 /\ cache[s].bestAsk > 0)

Alerting(cache) ==
    SelectSeq(WithBoth(cache), LAMBDA s : AtLeast(cache[s].realSpread, Bps(ALERT_THRESHOLD)))

Range(seq) == { seq[i] : i \in 1..Len(seq) }

\* The db.run() statements the saveAlert() calls of one pass issue.
NewWrites(cache) ==
    LET running == SelectSeq(Alerting(cache), saveAlertRuns)
    IN [ i \in 1..Len(running) |-> AlertRow(cache[running[i]]) ]

\* throttledBroadcast().  threw: the sink throws when it is called; nothing
\* catches it in performBroadcast() or here, so the assignment of
\* lastBroadcastTime after the call is not reached.
throttledBroadcast(cache, threw) ==
    LET timeSinceLast == now - lastBroadcastTime
        waits == IF wsBroadcaster /\ sink.waitingSince = 0
                 THEN [ sink EXCEPT !.waitingSince = now ] ELSE sink
        fresh == win.start = 0 \/ now >= win.start + BROADCAST_THROTTLE
        counted(b) == IF ~wsBroadcaster THEN win
                      ELSE IF fresh THEN [ start |-> now, n |-> 1, b |-> b ]
                      ELSE [ win EXCEPT !.n = @ + 1, !.b = @ + b ]
    IN IF broadcastPending THEN
           /\ sink' = waits
           /\ win' = counted(0)
           /\ UNCHANGED << lastBroadcastTime, broadcastPending, timers >>
       ELSE IF LeadingEdge(timeSinceLast) THEN
           IF threw /\ SinkInvoked(cache) THEN
               /\ sink' = SinkThrew(cache, sink)
               /\ win' = counted(0)
               /\ UNCHANGED << lastBroadcastTime, broadcastPending, timers >>
           ELSE
               /\ sink' = SinkAfter(cache, sink)
               /\ lastBroadcastTime' = IF SinkInvoked(cache) THEN now ELSE lastBroadcastTime
               /\ win' = counted(IF SinkInvoked(cache) THEN 1 ELSE 0)
               /\ UNCHANGED << broadcastPending, timers >>
       ELSE
           /\ broadcastPending' = TRUE
           /\ timers' = Append(timers, now + TrailingDelay(timeSinceLast))
           /\ sink' = waits
           /\ win' = counted(0)
           /\ UNCHANGED lastBroadcastTime

\* saveSpread() without its throttle.
saveSpreadDueAlways(symbol) == TRUE

\* The throttle test in front of saveSpread().
saveSpreadDue(symbol) == now - lastDbSave[symbol] >= DB_SAVE_THROTTLE

\* What the forEach does for the pairs with both best prices, in its order:
\* the persistence throttle and saveSpread(), then the threshold test and
\* saveAlert().  write says whether a storage statement was issued.
PairStages(cache) ==
    LET both == WithBoth(cache)
    IN [ i \in 1..(2 * Len(both)) |->
           LET s == both[(i + 1) \div 2]
           IN IF i % 2 = 1
              THEN [ stage |-> "persistence", symbol |-> s,
                     write |-> saveSpreadDue(s) ]
              ELSE [ stage |-> "alert", symbol |-> s,
                     write |-> AtLeast(cache[s].realSpread, Bps(ALERT_THRESHOLD))
                                 /\ saveAlertRuns(s) ] ]

\* The stages of one updateAndRecalculate(): the forEach, then the signal to
\* the broadcast throttle.
RecalcStages(cache) ==
    PairStages(cache) \o << [ stage |-> "broadcast", symbol |-> "*", write |-> FALSE ] >>

updateAndRecalculate(written, threw) ==
    LET cache == calculateSpreads(written)
        called == Range(Alerting(cache))
        retried == { w.symbol : w \in Range(NewWrites(cache)) }
        saved == { s \in Range(WithBoth(cache)) : saveSpreadDue(s) }
    IN /\ PRICE_CACHE' = cache
       /\ lastDbSave' = [ s \in AllSymbols |-> IF s \in saved THEN now ELSE lastDbSave[s] ]
       /\ dbQueue' = dbQueue \o NewWrites(cache)
       /\ saveAlertResult' =
            [ s \in AllSymbols |->
                IF s \in called THEN saveAlertResolves(s) ELSE "none" ]
       /\ failed' =
            [ s \in AllSymbols |->
                IF s \in retried /\ failed[s].at # 0 /\ failed[s].retry = 0
                THEN [ failed[s] EXCEPT !.retry = now ] ELSE failed[s] ]
       /\ threw => SinkReached(cache)
       /\ throttledBroadcast(cache, threw)
       /\ events' = events + 1
       /\ UNCHANGED << hybrid, adapter, push, vestPull, fetching, impl, now, started, wsBroadcaster, alertCache, alerts,
                       priceMetrics, scheduler >>

----------------------------------------------------------------------------
(* Handlers                                                                *)

\* How many listener calls one emit makes: one per 'update' listener of the
\* venue's connector (ts); one for a frame of a socket, which has the one
\* 'data' listener startScheduler() gave it, and one for a poll response (js).
Copies(ex) ==
    IF impl = "ts" THEN scheduler.listeners[ex] ELSE 1

\* EventEmitter.emit: the listeners run one after the other, before anything
\* else does.  A call is either the first of a new emit or the next of the
\* current one.  A listener that throws ends the emit: the listeners after
\* it are not called.
Dispatch(ex, markets, threw) ==
    LET call == [ venue |-> ex, markets |-> markets ]
    IN IF inbox = << >>
       THEN /\ events < MaxEvents
            /\ Copies(ex) >= 1
            /\ inbox' = IF threw THEN << >>
                        ELSE [ i \in 1..(Copies(ex) - 1) |-> call ]
       ELSE /\ Head(inbox) = call
            /\ inbox' = IF threw THEN << >> ELSE Tail(inbox)

\* The age of a quote when its event is handled: data.timestamp is now - Lag.
Lag(f) == f[5]

\* ts variant: handleUpdate(exchangeName, data), data stamped by the connector.
handleUpdate(f, threw) ==
    /\ impl = "ts" /\ started
    /\ Dispatch(f[1], << f >>, threw)
    /\ LET ex == f[1]
           symbol == f[2]
           cache == ensurePair(PRICE_CACHE, symbol)
       IN IF symbol \notin DOMAIN cache
          THEN /\ ~threw
               /\ ignored' = ignored \cup { symbol }
               /\ events' = events + 1
               /\ stages' = << >>
               /\ UNCHANGED << polls, hybrid, adapter, push, vestPull, fetching, impl, now, started, PRICE_CACHE, wsBroadcaster,
                               lastDbSave, lastBroadcastTime, broadcastPending,
                               timers, alertCache, dbQueue, alerts,
                               saveAlertResult, failed, sink, win,
                               priceMetrics, scheduler >>
          ELSE LET quote == [ bid |-> f[3], ask |-> f[4], timestamp |-> now - Lag(f),
                              source |-> f[6] ]
                   written == [ cache EXCEPT ![symbol].quotes[ex] = quote ]
               IN /\ updateAndRecalculate(written, threw)
                  /\ stages' = << [ stage |-> "ingestion", symbol |-> symbol,
                                    write |-> cache[symbol].quotes[ex] # quote ] >>
                                 \o RecalcStages(calculateSpreads(written))
                  /\ UNCHANGED << ignored, polls >>

\* js variant: the forEach of a venue handler over the markets of one list.
RECURSIVE applyMarkets(_, _, _)
applyMarkets(cache, ex, markets) ==
    IF markets = << >> THEN cache
    ELSE LET f == Head(markets)
             c == ensurePair(cache, f[2])
         IN applyMarkets(
              IF f[2] \notin DOMAIN c THEN c
              ELSE [ c EXCEPT ![f[2]].quotes[ex].bid = f[3],
                              ![f[2]].quotes[ex].ask = f[4] ],
              ex, Tail(markets))

\* The symbols of a list for which ensurePair() returns null.
TurnedAway(cache, markets) ==
    { markets[i][2] : i \in { j \in 1..Len(markets) :
                                markets[j][2] \notin DOMAIN ensurePair(cache, markets[j][2]) } }

\* The assignments of the forEach of a venue handler, one per market that
\* ensurePair() lets in; write says whether the stored quote changed.
Ingested(cache, ex, markets) ==
    LET let == SelectSeq(markets, LAMBDA f : f[2] \in DOMAIN ensurePair(cache, f[2]))
    IN [ i \in 1..Len(let) |->
           [ stage |-> "ingestion", symbol |-> let[i][2],
             write |-> \/ let[i][2] \notin DOMAIN cache
                       \/ cache[let[i][2]].quotes[ex].bid # let[i][3]
                       \/ cache[let[i][2]].quotes[ex].ask # let[i][4] ] ]

\* The venues the js variant polls.
Polled == { "lighter", "vest" }

\* The setInterval of a polled venue is set.
PollTimer(ex) ==
    IF ex = "vest" THEN scheduler.vestInterval ELSE scheduler.lighterInterval

\* The time of the next tick of the setInterval of a polled venue, 0 when
\* the timer is not set.
PollDue(ex) == scheduler.due[ex]

\* A frame needs a socket that has not been disconnected, a response a
\* request in flight.
Delivers(ex) ==
    IF ex \in Polled THEN polls[ex] > 0 ELSE scheduler.sockets > 0

\* A frame of a socket is handled, or the response of one request of ex is
\* applied after the await of updateVestData() / updateLighterData().  What
\* the sink throws leaves handleParadexData() and is caught and logged in
\* updateVestData() and updateLighterData().
venueHandler(ex, markets, threw) ==
    /\ impl = "js" /\ started
    /\ Delivers(ex)
    /\ Dispatch(ex, markets, threw)
    /\ updateAndRecalculate(applyMarkets(PRICE_CACHE, ex, markets), threw)
    /\ stages' = Ingested(PRICE_CACHE, ex, markets)
                   \o RecalcStages(calculateSpreads(applyMarkets(PRICE_CACHE, ex, markets)))
    /\ ignored' = ignored \cup TurnedAway(PRICE_CACHE, markets)
    /\ polls' = IF ex \in Polled THEN [ polls EXCEPT ![ex] = @ - 1 ] ELSE polls

handleParadexData(markets, threw) == venueHandler("paradex", markets, threw)

updateVestData(vestData, threw) == venueHandler("vest", vestData, threw)

updateLighterData(lighterData, threw) == venueHandler("lighter", lighterData, threw)

----------------------------------------------------------------------------
(* Lifecycle, timers, storage callbacks, clock                             *)

setWebSocketBroadcaster ==
    /\ inbox = << >>
    /\ stages' = << >>
    /\ ~wsBroadcaster
    /\ wsBroadcaster' = TRUE
    /\ UNCHANGED << polls, hybrid, adapter, push, vestPull, fetching, impl, now, started, PRICE_CACHE, lastDbSave, lastBroadcastTime,
                    broadcastPending, timers, alertCache, dbQueue, alerts, events,
                    saveAlertResult, failed, sink, win, ignored, inbox,
                    priceMetrics, scheduler >>

\* The venues in the order stopScheduler() stops them.
StopOrder == << "paradex", "vest", "lighter", "extended" >>

\* stopScheduler()'s paradex step without its null test.
stopParadexWSUnguarded(sch) ==
    [ sch EXCEPT !.sockets = @ - 1, !.paradexWS = FALSE ]

\* js: if (paradexWS) { paradexWS.disconnect(); paradexWS = null; }
stopParadexWS(sch) ==
    IF sch.paradexWS
    THEN [ sch EXCEPT !.sockets = @ - 1, !.paradexWS = FALSE ]
    ELSE sch

\* js: if (lighterInterval) { clearInterval(lighterInterval); lighterInterval = null; }
stopLighterInterval(sch) ==
    IF sch.lighterInterval
    THEN [ sch EXCEPT !.intervals = @ - 1, !.lighterInterval = FALSE,
                      !.due["lighter"] = 0 ]
    ELSE sch

stopVestInterval(sch) ==
    IF sch.vestInterval
    THEN [ sch EXCEPT !.intervals = @ - 1, !.vestInterval = FALSE,
                      !.due["vest"] = 0 ]
    ELSE sch

\* ts: service.stop() of a connector: its timers and its connection are gone.
stopService(sch, ex) == [ sch EXCEPT !.running = @ \ { ex } ]

\* One step of stopScheduler(), for one venue.
stopOne(sch, ex) ==
    IF impl = "ts" THEN stopService(sch, ex)
    ELSE IF ex = "paradex" THEN stopParadexWS(sch)
    ELSE IF ex = "lighter" THEN stopLighterInterval(sch)
    ELSE IF ex = "vest" THEN stopVestInterval(sch)
    ELSE sch

RECURSIVE stopIn(_, _)
stopIn(order, sch) ==
    IF order = << >> THEN sch ELSE stopIn(Tail(order), stopOne(sch, Head(order)))

\* js startScheduler(): the cache is seeded anew, a new socket is created
\* and connected, a request is issued for each polled venue and its poll
\* timer is replaced by one that first ticks POLL_INTERVAL from now.
startScheduler ==
    /\ impl = "js"
    /\ inbox = << >>
    /\ scheduler.sockets < MaxStarts
    /\ \A ex \in Polled : polls[ex] < MaxOverlap
    /\ started' = TRUE
    /\ PRICE_CACHE' = [ s \in Allowed |-> createPair(s) ]
    /\ scheduler' =
         [ scheduler EXCEPT
             !.stops = 0,
             !.paradexWS = TRUE, !.sockets = @ + 1,
             !.intervals = @ + (IF scheduler.lighterInterval THEN 0 ELSE 1)
                             + (IF scheduler.vestInterval THEN 0 ELSE 1),
             !.lighterInterval = TRUE, !.vestInterval = TRUE,
             !.due = [ ex \in Polled |-> now + POLL_INTERVAL ] ]
    /\ polls' = [ ex \in Polled |-> polls[ex] + 1 ]
    /\ stages' = << >>
    /\ UNCHANGED << hybrid, adapter, push, vestPull, fetching, impl, now, wsBroadcaster, lastDbSave, lastBroadcastTime,
                    broadcastPending, timers, alertCache, dbQueue, alerts, events,
                    saveAlertResult, failed, sink, win, ignored, inbox, priceMetrics >>

\* js: the poll timer of ex ticks, POLL_INTERVAL after it was set or after
\* its last tick: updateVestData() or updateLighterData() is called and
\* issues a request, whether or not an earlier one has been answered.
pollTick(ex) ==
    /\ impl = "js"
    /\ inbox = << >>
    /\ PollTimer(ex)
    /\ PollDue(ex) = now
    /\ polls[ex] < MaxOverlap
    /\ polls' = [ polls EXCEPT ![ex] = @ + 1 ]
    /\ scheduler' = [ scheduler EXCEPT !.due[ex] = @ + POLL_INTERVAL ]
    /\ stages' = << >>
    /\ UNCHANGED << hybrid, adapter, push, vestPull, fetching, impl, now, started, PRICE_CACHE, wsBroadcaster,
                    lastDbSave, lastBroadcastTime, broadcastPending, timers, alertCache,
                    dbQueue, alerts, events, saveAlertResult, failed, sink, win, ignored,
                    inbox, priceMetrics >>

\* js: a request of ex fails: the catch block of updateVestData() or
\* updateLighterData() logs the error, the cache is not touched.
pollFails(ex) ==
    /\ impl = "js"
    /\ inbox = << >>
    /\ polls[ex] > 0
    /\ polls' = [ polls EXCEPT ![ex] = @ - 1 ]
    /\ stages' = << >>
    /\ UNCHANGED << hybrid, adapter, push, vestPull, fetching, impl, now, started, PRICE_CACHE, wsBroadcaster,
                    lastDbSave, lastBroadcastTime, broadcastPending, timers, alertCache,
                    dbQueue, alerts, events, saveAlertResult, failed, sink, win, ignored,
                    inbox, priceMetrics, scheduler >>

\* saveTopPairsToDb(): the pairs of getPriceCache() that pass the filter
\* (realSpread > -10 and Math.abs(realSpread) < 50, in percent), by falling
\* spread, the first TOP_PAIRS of them.  The sort is stable: pairs of the
\* same spread keep the cache's order.
TopPairs(cache) ==
    LET picked == { s \in DOMAIN cache :
                      /\ Greater(cache[s].realSpread, Bps(-1000))
                      /\ Greater(Bps(5000), cache[s].realSpread)
                      /\ Greater(cache[s].realSpread, Bps(-5000)) }
        pos(s) == CHOOSE i \in 1..Len(ALLOWED_SYMBOLS) : ALLOWED_SYMBOLS[i] = s
        sorted == CHOOSE q \in [ 1..Cardinality(picked) -> picked ] :
                    /\ \A i, j \in DOMAIN q : i # j => q[i] # q[j]
                    /\ \A i, j \in DOMAIN q :
                          i < j => \/ Greater(cache[q[i]].realSpread, cache[q[j]].realSpread)
                                   \/ /\ SameSpread(cache[q[i]].realSpread, cache[q[j]].realSpread)
                                      /\ pos(q[i]) < pos(q[j])
    IN IF Len(sorted) <= TOP_PAIRS THEN sorted ELSE SubSeq(sorted, 1, TOP_PAIRS)

MetricRow(pair) ==
    [ timestamp |-> now,
      symbol |-> pair.symbol,
      vest_bid |-> pair.quotes["vest"].bid, vest_ask |-> pair.quotes["vest"].ask,
      lighter_bid |-> pair.quotes["lighter"].bid, lighter_ask |-> pair.quotes["lighter"].ask,
      paradex_bid |-> pair.quotes["paradex"].bid, paradex_ask |-> pair.quotes["paradex"].ask,
      best_bid_exchange |-> pair.bestBidEx,
      best_ask_exchange |-> pair.bestAskEx,
      real_spread |-> pair.realSpread ]

saveTopPairsToDb ==
    /\ inbox = << >>
    /\ stages' = << >>
    /\ LET cache == getPriceCache(PRICE_CACHE)
           pairs == TopPairs(cache)
       IN priceMetrics' = IF pairs = << >> THEN priceMetrics
                          ELSE [ i \in 1..Len(pairs) |-> MetricRow(cache[pairs[i]]) ]
    /\ UNCHANGED << polls, hybrid, adapter, push, vestPull, fetching, impl, now, started, PRICE_CACHE, wsBroadcaster, lastDbSave,
                    lastBroadcastTime, broadcastPending, timers, alertCache, dbQueue,
                    alerts, events, saveAlertResult, failed, sink, win, ignored,
                    inbox, scheduler >>

RemoveAt(seq, i) == [ j \in 1..(Len(seq) - 1) |-> IF j < i THEN seq[j] ELSE seq[j + 1] ]

\* The callback of the trailing setTimeout: performBroadcast(), then the flag.
trailingTimer(i) ==
    /\ inbox = << >>
    /\ stages' = << >>
    /\ timers[i] <= now
    /\ timers' = RemoveAt(timers, i)
    /\ sink' = SinkAfter(PRICE_CACHE, sink)
    /\ lastBroadcastTime' = IF SinkInvoked(PRICE_CACHE) THEN now ELSE lastBroadcastTime
    /\ win' = IF SinkInvoked(PRICE_CACHE) THEN [ win EXCEPT !.b = @ + 1 ] ELSE win
    /\ broadcastPending' = FALSE
    /\ UNCHANGED << polls, hybrid, adapter, push, vestPull, fetching, impl, now, started, PRICE_CACHE, wsBroadcaster, lastDbSave,
                    alertCache, dbQueue, alerts, events, saveAlertResult, failed,
                    ignored, inbox, priceMetrics,
                    scheduler >>

\* The same callback when the registered sink throws: wsBroadcaster(data)
\* raises inside performBroadcast(), so neither the assignment of
\* lastBroadcastTime after it nor the one of broadcastPending after
\* performBroadcast() is reached.
trailingTimerThrows(i) ==
    /\ inbox = << >>
    /\ stages' = << >>
    /\ timers[i] <= now
    /\ SinkInvoked(PRICE_CACHE)
    /\ timers' = RemoveAt(timers, i)
    /\ sink' = SinkThrew(PRICE_CACHE, sink)
    /\ UNCHANGED << polls, hybrid, adapter, push, vestPull, fetching, impl, now, started, PRICE_CACHE, wsBroadcaster, lastDbSave,
                    lastBroadcastTime, broadcastPending, win,
                    alertCache, dbQueue, alerts, events, saveAlertResult, failed,
                    ignored, inbox, priceMetrics,
                    scheduler >>

\* The callback of db.run() with err = null.
dbRunSucceeds ==
    /\ inbox = << >>
    /\ stages' = << >>
    /\ dbQueue # << >>
    /\ LET row == Head(dbQueue)
       IN /\ alertCache' = [ alertCache EXCEPT ![row.symbol] = row.timestamp ]
          /\ alerts' = Append(alerts, row)
    /\ dbQueue' = Tail(dbQueue)
    /\ UNCHANGED << polls, hybrid, adapter, push, vestPull, fetching, impl, now, started, PRICE_CACHE, wsBroadcaster, lastDbSave,
                    lastBroadcastTime, broadcastPending, timers, events,
                    saveAlertResult, failed, sink, win, ignored, inbox,
                    priceMetrics, scheduler >>

\* The callback of db.run() with an error: logged, the promise rejects.
dbRunFails ==
    /\ inbox = << >>
    /\ stages' = << >>
    /\ dbQueue # << >>
    /\ failed' = [ failed EXCEPT ![Head(dbQueue).symbol] =
                     [ at |-> Head(dbQueue).timestamp, retry |-> 0 ] ]
    /\ dbQueue' = Tail(dbQueue)
    /\ UNCHANGED << polls, hybrid, adapter, push, vestPull, fetching, impl, now, started, PRICE_CACHE, wsBroadcaster, lastDbSave,
                    lastBroadcastTime, broadcastPending, timers, alertCache, alerts,
                    events, saveAlertResult, sink, win, ignored, inbox,
                    priceMetrics, scheduler >>

\* The clock moves.  Nothing that is due is passed over: a trailing timer
\* runs before the clock passes its due time, and so does a tick of a poll
\* timer, which is a turn of the event loop of its own (pollTick), as is
\* the answer to the request it issues or the failure of that request.
Advance(step) ==
    /\ inbox = << >>
    /\ stages' = << >>
    /\ \A i \in 1..Len(timers) : now + step <= timers[i]
    /\ \A ex \in Polled : PollTimer(ex) => now + step <= PollDue(ex)
    /\ now' = now + step
    /\ UNCHANGED << polls, hybrid, adapter, push, vestPull, fetching, impl, started, PRICE_CACHE, wsBroadcaster, lastDbSave,
                    lastBroadcastTime, broadcastPending, timers, alertCache, dbQueue,
                    alerts, events, saveAlertResult, failed, sink, win, ignored,
                    inbox, priceMetrics, scheduler >>

TickFine ==
    /\ ((now - Epoch) % CoarseStep) \div FineStep < MaxFine
    /\ Advance(FineStep)

TickCoarse ==
    /\ (now - Epoch) \div CoarseStep < MaxCoarse
    /\ Advance(CoarseStep)

TickSave ==
    /\ ((now - Epoch) % CoarseStep) \div DB_SAVE_THROTTLE < MaxSave
    /\ Advance(DB_SAVE_THROTTLE)

\* The time of the next tick of a poll timer that is set.
NextPollTick ==
    CHOOSE t \in { PollDue(ex) : ex \in { x \in Polled : PollTimer(x) } } :
        \A ex \in Polled : PollTimer(ex) => t <= PollDue(ex)

\* The clock moves to the time at which a poll timer ticks next.
TickPoll ==
    /\ impl = "js"
    /\ inbox = << >>
    /\ \E ex \in Polled : PollTimer(ex)
    /\ NextPollTick > now
    /\ \A i \in 1..Len(timers) : NextPollTick <= timers[i]
    /\ (now - Epoch) \div POLL_INTERVAL < MaxTicks
    /\ now' = NextPollTick
    /\ stages' = << >>
    /\ UNCHANGED << polls, hybrid, adapter, push, vestPull, fetching, impl, started, PRICE_CACHE,
                    wsBroadcaster, lastDbSave, lastBroadcastTime, broadcastPending,
                    timers, alertCache, dbQueue, alerts, events, saveAlertResult,
                    failed, sink, win, ignored, inbox, priceMetrics, scheduler >>

----------------------------------------------------------------------------
(* Pull adapters: fetchMarkets() of the four venues.  A response is         *)
(* [ok, records]: ok is false when the request fails (axios throws); a      *)
(* record has the symbol as the sequence of its parts between dashes        *)
(* (<< >>: the field is missing), bid and ask, the flags market_type,       *)
(* active and status, and last (last_trade_price).  For Vest a record is a  *)
(* ticker and the answer to its depth request: depth says whether that      *)
(* request succeeds, bid and ask are the top levels.                        *)

\* A field that holds a text that is no number, and what parseFloat makes of
\* it; a missing field reads as UNDEFINED.
TEXT == -777777
NaN == -666666

parseFloat(v) == IF v = TEXT \/ v = UNDEFINED THEN NaN ELSE v

\* v || w
OrElse(v, w) == IF v = UNDEFINED \/ v = 0 THEN w ELSE v

\* v || 0
OrZero(v) == OrElse(v, 0)

\* A venue's spelling of a symbol.
WireSymbol(venue, base) ==
    IF venue = "paradex" THEN << base, "USD", "PERP" >>
    ELSE IF venue = "vest" THEN << base, "PERP" >>
    ELSE IF venue = "extended" THEN << base, "USD" >>
    ELSE << base >>

\* symbol.endsWith('-' + suffix parts)
EndsWith(symbol, suffix) ==
    /\ Len(symbol) > Len(suffix)
    /\ SubSeq(symbol, Len(symbol) - Len(suffix) + 1, Len(symbol)) = suffix

\* BaseExchangeService.isCrypto and parsePrice, used by the Lighter adapter.
isCrypto(symbol) == symbol \in AllSymbols

parsePrice(v) == parseFloat(v)

\* symbol.includes('--'): an empty part between two dashes.
DoubleDash(symbol) == { i \in 2..(Len(symbol) - 1) : symbol[i] = "" }

\* Lighter: m.symbol.includes('--') ? m.symbol.split('--')[0] : m.symbol
LighterSymbol(symbol) ==
    IF DoubleDash(symbol) = { } THEN symbol
    ELSE SubSeq(symbol, 1,
                (CHOOSE i \in DoubleDash(symbol) : \A j \in DoubleDash(symbol) : i <= j) - 1)

\* Lighter: m.best_bid || m.last_trade_price
LighterPrice(v, last) == parsePrice(OrElse(v, last))

\* What the loop body of an adapter does with one record: it takes a quote
\* from it, skips it, or throws a TypeError (a method called on undefined).
Outcome(venue, m) ==
    IF venue = "paradex" THEN
        IF m.symbol = << >> \/ ~EndsWith(m.symbol, << "USD", "PERP" >>) THEN "skip"
        ELSE IF m.symbol[1] \notin Allowed THEN "skip"
        ELSE IF parseFloat(OrZero(m.bid)) > 0 /\ parseFloat(OrZero(m.ask)) > 0
             THEN "take" ELSE "skip"
    ELSE IF venue = "extended" THEN
        IF m.symbol = << >> \/ Len(m.symbol) < 2 THEN "skip"
        ELSE IF m.symbol[1] \notin Allowed THEN "skip"
        ELSE IF m.active # TRUE \/ m.status # "ACTIVE" THEN "skip"
        ELSE IF OrZero(m.bid) = 0 \/ OrZero(m.ask) = 0 THEN "skip"
        ELSE IF parseFloat(OrZero(m.bid)) > 0 /\ parseFloat(OrZero(m.ask)) > 0
             THEN "take" ELSE "skip"
    ELSE IF venue = "lighter" THEN
        IF m.market_type # "perp" \/ m.status # "active" THEN "skip"
        ELSE IF m.symbol = << >> THEN "throw"
        ELSE IF Len(LighterSymbol(m.symbol)) # 1 \/ ~isCrypto(LighterSymbol(m.symbol)[1])
             THEN "skip"
        ELSE IF /\ LighterPrice(m.bid, m.last) > 0
                /\ LighterPrice(m.ask, m.last) > 0
             THEN "take" ELSE "skip"
    ELSE \* vest: the ticker loop
        IF m.symbol = << >> THEN "throw"
        ELSE IF ~EndsWith(m.symbol, << "PERP" >>) THEN "skip"
        ELSE IF m.symbol[1] \notin Allowed THEN "skip"
        ELSE "take"

\* The quote an adapter pushes for a record it takes.
MarketData(venue, m) ==
    IF venue = "lighter"
    THEN [ symbol |-> LighterSymbol(m.symbol)[1],
           bid |-> LighterPrice(m.bid, m.last), ask |-> LighterPrice(m.ask, m.last) ]
    ELSE [ symbol |-> m.symbol[1], bid |-> parseFloat(m.bid), ask |-> parseFloat(m.ask) ]

\* The forEach of an adapter over the records, up to the first throw.
RECURSIVE Collect(_, _, _)
Collect(venue, records, results) ==
    IF records = << >> THEN [ threw |-> FALSE, result |-> results ]
    ELSE LET o == Outcome(venue, Head(records))
         IN IF o = "throw" THEN [ threw |-> TRUE, result |-> results ]
            ELSE Collect(venue, Tail(records),
                         IF o = "take" THEN Append(results, Head(records))
                         ELSE results)

\* VestService.fetchDepth with its try/catch taken away: a failed request
\* throws.
fetchDepthUncaught(m) ==
    IF m.depth = "fail" THEN "throw"
    ELSE IF m.bid = UNDEFINED \/ m.ask = UNDEFINED THEN "null"
    ELSE "data"

\* VestService.fetchDepth: the top of the book, or null when the request
\* fails or a side of the book is empty.
fetchDepth(m) ==
    IF m.depth = "fail" THEN "null"
    ELSE IF m.bid = UNDEFINED \/ m.ask = UNDEFINED THEN "null"
    ELSE "data"

\* The depth loop of VestService.fetchMarkets over symbolsToFetch.
RECURSIVE DepthLoop(_, _)
DepthLoop(symbolsToFetch, results) ==
    IF symbolsToFetch = << >> THEN [ threw |-> FALSE, result |-> results ]
    ELSE LET m == Head(symbolsToFetch)
             data == fetchDepth(m)
             bid == parseFloat(OrZero(m.bid))
             ask == parseFloat(OrZero(m.ask))
         IN IF data = "throw" THEN [ threw |-> TRUE, result |-> results ]
            ELSE DepthLoop(Tail(symbolsToFetch),
                           IF data = "data" /\ bid > 0 /\ ask > 0
                           THEN Append(results, MarketData("vest", m)) ELSE results)

\* The body of the try block of fetchMarkets.
Attempt(venue, response) ==
    IF ~response.ok THEN [ threw |-> TRUE, result |-> << >> ]
    ELSE LET looped == Collect(venue, response.records, << >>)
         IN IF venue = "vest"
            THEN IF looped.threw THEN [ threw |-> TRUE, result |-> << >> ]
                 ELSE DepthLoop(looped.result, << >>)
            ELSE [ threw |-> looped.threw,
                   result |-> [ i \in 1..Len(looped.result) |->
                                  MarketData(venue, looped.result[i]) ] ]

\* fetchMarkets without its catch block.
CaughtNothing(venue, attempt) == attempt

\* The catch block: Paradex and Lighter return [], Vest and Extended return
\* the results collected before the throw.
Caught(venue, attempt) ==
    IF attempt.threw
    THEN [ threw |-> FALSE,
           result |-> IF venue \in { "paradex", "lighter" } THEN << >>
                      ELSE attempt.result ]
    ELSE attempt

fetchMarkets(venue, response) == Caught(venue, Attempt(venue, response))

\* The records a response is made of.
Venues == { "paradex", "vest", "lighter", "extended" }

\* The status a venue gives a market that trades.
WireStatus(venue) == IF venue = "extended" THEN "ACTIVE" ELSE "active"

\* A record of a perpetual market that trades, with no last trade price.
Rec(venue, symbol, bid, ask, depth) ==
    [ symbol |-> symbol, bid |-> bid, ask |-> ask, depth |-> depth,
      market_type |-> "perp", active |-> TRUE, status |-> WireStatus(venue),
      last |-> UNDEFINED ]

\* Records that differ from those in what the adapters of Extended and of
\* Lighter look at: the flags, the last trade price, a double dash.
FlagRecords(venue) ==
    LET btc == Rec(venue, WireSymbol(venue, "BTC"), 1001, 1004, "ok")
    IN IF venue = "extended"
       THEN { [ btc EXCEPT !.active = FALSE ], [ btc EXCEPT !.status = "INACTIVE" ] }
       ELSE IF venue = "lighter"
       THEN { [ btc EXCEPT !.market_type = "spot" ],
              [ btc EXCEPT !.status = "inactive" ],
              [ btc EXCEPT !.symbol = << >>, !.market_type = "spot" ],
              [ btc EXCEPT !.bid = UNDEFINED, !.last = 1002 ],
              [ btc EXCEPT !.symbol = << "BTC", "", "USD" >> ] }
       ELSE { }

Records(venue) ==
    { Rec(venue, WireSymbol(venue, "BTC"), 1001, 1004, "ok"),
      Rec(venue, WireSymbol(venue, "ETH"), 1001, 1003, "ok"),
      Rec(venue, WireSymbol(venue, "DOGE"), 1001, 1003, "ok"),
      Rec(venue, << >>, 1001, 1003, "ok"),
      Rec(venue, WireSymbol(venue, "BTC"), TEXT, 1004, "ok"),
      Rec(venue, WireSymbol(venue, "BTC"), 0, 1004, "ok"),
      Rec(venue, WireSymbol(venue, "ETH"), 1001, UNDEFINED, "ok") }
      \cup FlagRecords(venue)
      \cup IF venue = "vest"
           THEN { Rec(venue, WireSymbol(venue, "BTC"), 1001, 1004, "fail") } ELSE { }

Min(a, b) == IF a <= b THEN a ELSE b

\* The batch size of the configuration.
CONCURRENCY == 2

\* Vest responses that queue more symbols than one batch holds, so that a
\* second batch of depth requests goes out.
SecondBatch(venue) ==
    IF venue = "vest"
    THEN [ 1..(CONCURRENCY + 1) ->
             { Rec(venue, WireSymbol(venue, "BTC"), 1001, 1004, "ok"),
               Rec(venue, WireSymbol(venue, "ETH"), 1001, 1003, "ok"),
               Rec(venue, WireSymbol(venue, "BTC"), 1001, 1004, "fail") } ]
    ELSE { }

Responses(venue) ==
    { [ ok |-> FALSE, records |-> << >> ] }
      \cup { [ ok |-> TRUE, records |-> r ] :
               r \in UNION { [ 1..n -> Records(venue) ] : n \in 0..MaxRecords }
                       \cup SecondBatch(venue) }

\* A step of a fetchMarkets() call: what the last call returned is a, the
\* call under way is f.
AdapterBecomes(a, f) ==
    /\ adapter' = a
    /\ fetching' = f
    /\ UNCHANGED << polls, hybrid, push, vestPull, impl, now, started, PRICE_CACHE,
                    wsBroadcaster, lastDbSave, lastBroadcastTime, broadcastPending,
                    timers, alertCache, dbQueue, alerts, events, saveAlertResult,
                    failed, sink, win, ignored, inbox, stages, priceMetrics,
                    scheduler >>

\* fetchMarkets() of a venue has returned on a response.
Returns(venue, response, attempt) ==
    [ venue |-> venue, response |-> response,
      threw |-> attempt.threw, result |-> attempt.result ]

\* Vest: symbolsToFetch.slice(i, i + CONCURRENCY) goes out to fetchDepth(),
\* the rest of symbolsToFetch waits.
DepthBatch(call, symbolsToFetch) ==
    LET n == Min(CONCURRENCY, Len(symbolsToFetch))
    IN [ call EXCEPT !.phase = "batch",
                     !.batch = SubSeq(symbolsToFetch, 1, n),
                     !.queue = SubSeq(symbolsToFetch, n + 1, Len(symbolsToFetch)),
                     !.inflight = n ]

\* fetchMarkets() of a venue is called and runs to its first await: the
\* request of the venue's markets (for Vest, of its tickers) is out.
fetch(venue) ==
    /\ adapter = << >> /\ fetching = << >>
    /\ AdapterBecomes(adapter,
                      [ venue |-> venue, phase |-> "request", response |-> << >>,
                        queue |-> << >>, batch |-> << >>, inflight |-> 0,
                        results |-> << >> ])

\* The request settles with a response.  Paradex, Lighter and Extended run
\* their loop over the records and return.  Vest runs its ticker loop: when
\* the request has failed or the loop throws, the catch block logs it and the
\* call returns its empty results; when no symbol is queued it returns; else
\* the first batch of depth requests goes out.
fetchAnswered(venue, response) ==
    /\ fetching # << >>
    /\ fetching.venue = venue /\ fetching.phase = "request"
    /\ IF venue # "vest"
       THEN AdapterBecomes(Returns(venue, response, fetchMarkets(venue, response)),
                           << >>)
       ELSE LET tickers == IF response.ok
                           THEN Collect("vest", response.records, << >>)
                           ELSE [ threw |-> TRUE, result |-> << >> ]
            IN IF tickers.threw
               THEN AdapterBecomes(
                        Returns(venue, response,
                                Caught("vest", [ threw |-> TRUE, result |-> << >> ])),
                        << >>)
               ELSE IF tickers.result = << >>
               THEN AdapterBecomes(
                        Returns(venue, response,
                                [ threw |-> FALSE, result |-> << >> ]),
                        << >>)
               ELSE AdapterBecomes(adapter,
                                   DepthBatch([ fetching EXCEPT !.response = response ],
                                              tickers.result))

\* Vest: a depth request of the batch returns.  With the last one
\* Promise.all resolves, the answers are looked at in the order of the batch
\* and the call sleeps.
fetchDepthAnswered ==
    /\ fetching # << >>
    /\ fetching.phase = "batch"
    /\ IF fetching.inflight > 1
       THEN AdapterBecomes(adapter, [ fetching EXCEPT !.inflight = @ - 1 ])
       ELSE LET looped == DepthLoop(fetching.batch, fetching.results)
            IN IF looped.threw
               THEN AdapterBecomes(
                        Returns("vest", fetching.response, Caught("vest", looped)),
                        << >>)
               ELSE AdapterBecomes(adapter,
                                   [ fetching EXCEPT !.phase = "sleep",
                                                     !.batch = << >>,
                                                     !.inflight = 0,
                                                     !.results = looped.result ])

\* Vest: sleep(100) is over.  The next batch goes out, or the loop has ended
\* and the call returns its results.
fetchSleepOver ==
    /\ fetching # << >>
    /\ fetching.phase = "sleep"
    /\ IF fetching.queue = << >>
       THEN AdapterBecomes(
                Returns("vest", fetching.response,
                        [ threw |-> FALSE, result |-> fetching.results ]),
                << >>)
       ELSE AdapterBecomes(adapter, DepthBatch(fetching, fetching.queue))

----------------------------------------------------------------------------
(* Hybrid connectors (ts): ParadexService with its push socket, and the     *)
(* REST-only VestService and ExtendedService.  A socket is in one of:        *)
(* "connecting", "open", "aborted" (close() called before it opened: its     *)
(* error event is due, then its close event), "failing" (error event         *)
(* emitted, close event due), "closing" (close() called while open, close    *)
(* event due).  A socket whose close event has been emitted is dropped.      *)

Connectors == { "paradex", "vest", "extended" }

\* ParadexService extends HybridExchangeService with a socket; VestService
\* and ExtendedService override start() and leave the socket methods empty.
PushCapableAll(c) == TRUE

PushCapable(c) == c = "paradex"

NewConnector ==
    [ ws |-> 0,                     \* this.ws: position in sockets, 0 = null
      sockets |-> << >>,            \* the sockets created and not yet closed
      isWsConnected |-> FALSE,
      fallbackActive |-> FALSE,
      reconnectAttempts |-> 0,
      reconnects |-> << >>,         \* pending setTimeout(connectWebSocket, delay)
      starts |-> 0,                 \* calls of start()
      stopped |-> FALSE,            \* stop() has returned, no start() since
      exhausted |-> FALSE,          \* 'Max reconnection attempts reached', no
                                    \* stop() or start() since
      promises |-> << >>,           \* the promises the suspended startScheduler()
                                    \* calls await: "pending" or how it was settled,
                                    \* the socket whose 'open' resolves it (0 = none),
                                    \* the delay of its connect time-out (0 = not armed)
      last |-> [ event |-> "none", emits |-> 0, attempts |-> 0, fallback |-> FALSE ] ]

\* What the step that has just run was: the event, the 'update' events it
\* emitted, and reconnectAttempts and fallbackActive as it found them.
Last(h, event, emits) ==
    [ event |-> event, emits |-> emits,
      attempts |-> h.reconnectAttempts, fallback |-> h.fallbackActive ]

\* HybridExchangeService.startFallback() / stopFallback(): the poll timer.
startFallback(h) == [ h EXCEPT !.fallbackActive = TRUE ]

stopFallback(h) == [ h EXCEPT !.fallbackActive = FALSE ]

\* The delay of scheduleReconnect() without its cap.
ReconnectDelayUncapped(attempt) == reconnectDelay * 2 ^ (attempt - 1)

ReconnectDelay(attempt) ==
    Min(reconnectDelay * 2 ^ (attempt - 1), RECONNECT_CAP)

scheduleReconnect(h) ==
    IF h.reconnectAttempts < maxReconnectAttempts
    THEN [ h EXCEPT !.reconnectAttempts = @ + 1,
                    !.reconnects =
                        Append(@, [ attempt |-> h.reconnectAttempts + 1,
                                    delay |-> ReconnectDelay(h.reconnectAttempts + 1) ]) ]
    ELSE [ (IF ~h.fallbackActive THEN startFallback(h) ELSE h)
             EXCEPT !.exhausted = TRUE ]

\* connectWebSocket(): a new socket replaces this.ws, whatever this.ws was;
\* when new WebSocket() throws, the catch block schedules a reconnect and
\* this.ws stays what it was.  The stubs of VestService and ExtendedService
\* do nothing.
connectWebSocket(c, h, threw) ==
    IF c # "paradex" THEN h
    ELSE IF threw THEN scheduleReconnect(h)
    ELSE [ h EXCEPT !.sockets = Append(@, "connecting"), !.ws = Len(h.sockets) + 1 ]

\* ws.close(): a socket that has not opened aborts its handshake, an open one
\* starts the closing handshake.
Closed(state) ==
    IF state = "connecting" THEN "aborted"
    ELSE IF state = "open" THEN "closing"
    ELSE state

disconnectWebSocket(c, h) ==
    IF c = "paradex"
    THEN [ h EXCEPT !.sockets = IF h.ws = 0 THEN @
                                ELSE [ @ EXCEPT ![h.ws] = Closed(@) ],
                    !.ws = 0,
                    !.isWsConnected = FALSE ]
    ELSE h

\* The 'open' handler with the counter left as it is.
onOpenKeepsAttempts(h) ==
    LET connected == [ h EXCEPT !.isWsConnected = TRUE ]
    IN IF connected.fallbackActive THEN stopFallback(connected) ELSE connected

\* The 'open' handler of connectWebSocket().
onOpen(h) ==
    LET connected == [ h EXCEPT !.isWsConnected = TRUE, !.reconnectAttempts = 0 ]
    IN IF connected.fallbackActive THEN stopFallback(connected) ELSE connected

\* A promise of connectWebSocket() that a start() awaits.
Promise(state, socket, timer) == [ state |-> state, socket |-> socket, timer |-> timer ]

\* resolve() in the 'open' handler: it settles the promise of the
\* connectWebSocket() call that created socket i, which only start() awaits.
resolve(h, i) ==
    [ h EXCEPT !.promises =
        [ n \in 1..Len(@) |->
            IF @[n].socket = i /\ @[n].state = "pending"
            THEN Promise("opened", i, 0) ELSE @[n] ] ]

\* The 'error' handler.
onError(h) == IF ~h.fallbackActive THEN startFallback(h) ELSE h

\* The 'close' handler.
onClose(h) == scheduleReconnect([ h EXCEPT !.isWsConnected = FALSE ])

\* sockets without the one at position i, and this.ws after it.
Without(h, i) ==
    [ h EXCEPT !.sockets = [ j \in 1..(Len(@) - 1) |-> IF j < i THEN @[j] ELSE @[j + 1] ],
               !.ws = IF @ = i THEN 0 ELSE IF @ > i THEN @ - 1 ELSE @,
               !.promises = [ n \in 1..Len(@) |->
                                [ @[n] EXCEPT !.socket = IF @ = i THEN 0
                                                         ELSE IF @ > i THEN @ - 1 ELSE @ ] ] ]

\* A step of connector c that leaves it as h and touches nothing else.
Becomes(c, h) ==
    /\ impl = "ts"
    /\ inbox = << >>
    /\ hybrid' = [ hybrid EXCEPT ![c] = h ]
    /\ UNCHANGED << polls, push, vestPull, fetching, impl, now, started, PRICE_CACHE, wsBroadcaster,
                    lastDbSave, lastBroadcastTime, broadcastPending, timers,
                    alertCache, dbQueue, alerts, events, saveAlertResult, failed,
                    sink, win, ignored, inbox, stages, priceMetrics, scheduler >>

\* start(): HybridExchangeService.start() connects the socket; VestService
\* and ExtendedService override it with startFallback().
startCall(c, h, threw) ==
    LET begun == [ h EXCEPT !.starts = @ + 1, !.stopped = FALSE, !.exhausted = FALSE,
                            !.last = Last(h, "start", 0) ]
    IN IF PushCapable(c) THEN connectWebSocket(c, begun, threw) ELSE startFallback(begun)

start(c, threw) ==
    LET h == hybrid[c]
    IN /\ h.starts < MaxStarts
       /\ Becomes(c, startCall(c, h, threw))
       /\ UNCHANGED adapter

\* stop(): the poll timer is cleared and the socket closed.
stopCall(c, h) ==
    LET ended == [ h EXCEPT !.stopped = TRUE, !.exhausted = FALSE,
                            !.last = Last(h, "stop", 0) ]
    IN disconnectWebSocket(c, stopFallback(ended))

stop(c) ==
    LET h == hybrid[c]
    IN /\ h.starts > 0
       /\ Becomes(c, stopCall(c, h))
       /\ UNCHANGED adapter

wsOpen(i) ==
    LET h == hybrid["paradex"]
    IN /\ i \in 1..Len(h.sockets) /\ h.sockets[i] = "connecting"
       /\ Becomes("paradex", resolve(onOpen([ h EXCEPT !.sockets[i] = "open",
                                                       !.last = Last(h, "open", 0) ]), i))
       /\ UNCHANGED adapter

\* An 'error' event: of a socket that is connecting or open, or that close()
\* was called on; the handler stays registered after close().
wsError(i) ==
    LET h == hybrid["paradex"]
    IN /\ i \in 1..Len(h.sockets)
       /\ h.sockets[i] \in { "connecting", "open", "aborted", "closing" }
       /\ Becomes("paradex", onError([ h EXCEPT !.sockets[i] = "failing",
                                                !.last = Last(h, "error", 0) ]))
       /\ UNCHANGED adapter

wsClose(i) ==
    LET h == hybrid["paradex"]
    IN /\ i \in 1..Len(h.sockets)
       /\ h.sockets[i] \in { "open", "failing", "closing" }
       /\ Becomes("paradex", onClose(Without([ h EXCEPT !.last = Last(h, "close", 0) ], i)))
       /\ UNCHANGED adapter

\* A frame of the socket of Paradex: json says whether it parses, result and
\* channel are message.result.channel and message.params.channel ("none":
\* there is no such field), data is message.params.data: missing, one
\* market, or an array of markets.
Frame(json, result, channel, data) ==
    [ json |-> json, result |-> result, channel |-> channel, data |-> data ]

NoData == [ present |-> FALSE, array |-> FALSE, value |-> << >> ]

OneMarket(m) == [ present |-> TRUE, array |-> FALSE, value |-> m ]

Markets(ms) == [ present |-> TRUE, array |-> TRUE, value |-> ms ]

\* A market of a markets_summary frame; symbol is the sequence of its parts
\* between dashes (<< >>: the field is missing).
WsMarket(symbol, bid, ask) == [ symbol |-> symbol, bid |-> bid, ask |-> ask ]

\* processMarketData(): the markets of the frame that reach onWsUpdate(),
\* in their order: those whose symbol ends in -USD-PERP and is allow-listed
\* and whose bid and ask are both above 0.
processMarketData(data) ==
    LET updates == IF data.array THEN data.value ELSE << data.value >>
    IN SelectSeq(updates,
                 LAMBDA market :
                    /\ market.symbol # << >>
                    /\ EndsWith(market.symbol, << "USD", "PERP" >>)
                    /\ market.symbol[1] \in Allowed
                    /\ parseFloat(OrZero(market.bid)) > 0
                    /\ parseFloat(OrZero(market.ask)) > 0)

\* handleWsMessage(): the calls of onWsUpdate() a frame leads to.  A frame
\* that does not parse is ignored, the subscription confirmation is logged,
\* a frame of another channel or without data is passed over.
handleWsMessage(frame) ==
    IF ~frame.json THEN << >>
    ELSE IF frame.result = "markets_summary" THEN << >>
    ELSE IF frame.channel = "markets_summary" /\ frame.data.present
    THEN processMarketData(frame.data)
    ELSE << >>

\* The frames the socket delivers: no JSON, the subscription confirmation,
\* a frame of another channel, and markets_summary frames with no data, with
\* one market, with two, with a market outside the allow-list, without a
\* symbol, of another kind, with a bid of 0 and with an ask that is no number.
WsFrames ==
    LET btc == WsMarket(WireSymbol("paradex", "BTC"), 1001, 1004)
        eth == WsMarket(WireSymbol("paradex", "ETH"), 1001, 1003)
        doge == WsMarket(WireSymbol("paradex", "DOGE"), 1001, 1003)
        summary(data) == Frame(TRUE, "none", "markets_summary", data)
    IN { Frame(FALSE, "none", "none", NoData),
         Frame(TRUE, "markets_summary", "none", NoData),
         Frame(TRUE, "none", "trades", Markets(<< btc >>)),
         summary(NoData),
         summary(OneMarket(btc)),
         summary(Markets(<< btc, eth >>)),
         summary(Markets(<< doge, eth >>)),
         summary(OneMarket(doge)),
         summary(OneMarket(WsMarket(<< >>, 1001, 1004))),
         summary(OneMarket(WsMarket(<< "BTC", "USD" >>, 1001, 1004))),
         summary(Markets(<< [ btc EXCEPT !.bid = 0 ], [ eth EXCEPT !.ask = TEXT ] >>)),
         summary(Markets(<< [ btc EXCEPT !.ask = UNDEFINED ], eth >>)) }

\* A 'message' event of a socket that is open, or that close() was called
\* on while it was open and that has not closed yet: handleWsMessage(), and
\* onWsUpdate() emits 'update' once for every market it lets through.
wsMessage(i, frame) ==
    LET h == hybrid["paradex"]
    IN /\ i \in 1..Len(h.sockets) /\ h.sockets[i] \in { "open", "closing" }
       /\ Becomes("paradex",
                  [ h EXCEPT !.last = Last(h, "message", Len(handleWsMessage(frame))) ])
       /\ UNCHANGED adapter

\* The callback of a setTimeout of scheduleReconnect().
reconnectTimer(k, threw) ==
    LET h == hybrid["paradex"]
    IN /\ k \in 1..Len(h.reconnects)
       /\ Becomes("paradex",
                  connectWebSocket("paradex",
                      [ h EXCEPT !.reconnects = [ j \in 1..(Len(@) - 1) |->
                                                    IF j < k THEN @[j] ELSE @[j + 1] ],
                                 !.last = Last(h, "reconnect", 0) ],
                      threw))
       /\ UNCHANGED adapter

\* A tick of the fallback poll timer: fetchMarkets(), one 'update' event per
\* quote of its result.
fallbackPoll(c, response) ==
    LET h == hybrid[c]
        venue == c
        got == fetchMarkets(venue, response)
    IN /\ h.fallbackActive
       /\ Becomes(c, [ h EXCEPT !.last = Last(h, "poll", Len(got.result)) ])
       /\ adapter' = [ venue |-> venue, response |-> response,
                       threw |-> got.threw, result |-> got.result ]

----------------------------------------------------------------------------
(* startScheduler() of ts, one await after the other, and stopScheduler().  *)
(* The promise of connectWebSocket() is resolved in its 'open' handler and  *)
(* in its catch block, nowhere else.  HybridExchangeService.start() is not  *)
(* part of the sources at hand: it is taken as the connector's description  *)
(* has it, a push connect that times out (after the wsTimeout the service   *)
(* passes to its base class) and falls back to polling.  LighterService is  *)
(* not part of them either: its start() is taken to return.                 *)

\* The connectors in the order startScheduler() starts them.
StartOrder == << "paradex", "vest", "lighter", "extended" >>

\* start() awaited, with no time-out on the connect.
awaitedStartUntimed(c, h, threw) ==
    LET called == startCall(c, h, threw)
    IN IF PushCapable(c) /\ ~threw
       THEN [ called EXCEPT !.promises = Append(@, Promise("pending", called.ws, 0)) ]
       ELSE called

\* start() awaited: the start() of VestService and ExtendedService returns
\* after startFallback(); that of a push connector waits for the socket to
\* open, for wsTimeout at most, and does not wait when no socket could be
\* created (the catch block of connectWebSocket() resolves).
awaitedStart(c, h, threw) ==
    LET called == startCall(c, h, threw)
    IN IF PushCapable(c) /\ ~threw
       THEN [ called EXCEPT !.promises =
                Append(@, Promise("pending", called.ws, WS_TIMEOUT)) ]
       ELSE called

\* The connect time-out of the n-th start() that is awaited fires: the
\* start() gives up the wait and polls.
connectTimeout(n) ==
    LET h == hybrid["paradex"]
    IN /\ n \in 1..Len(h.promises)
       /\ h.promises[n].state = "pending"
       /\ h.promises[n].timer > 0
       /\ Becomes("paradex",
                  [ (IF ~h.fallbackActive THEN startFallback(h) ELSE h)
                      EXCEPT !.promises[n] = Promise("timedOut", @.socket, 0) ])
       /\ UNCHANGED adapter

\* The call awaiting the start() of the connector at position at: promise is
\* the promise it waits for, 0 when the start() has returned.
Call(at, hyb, threw) ==
    [ at |-> at,
      promise |-> IF PushCapable(StartOrder[at]) /\ ~threw
                  THEN Len(hyb[StartOrder[at]].promises) ELSE 0 ]

\* The promise a suspended startScheduler() awaits is settled.
Settled(call) ==
    IF call.promise = 0 THEN TRUE
    ELSE hybrid[StartOrder[call.at]].promises[call.promise].state # "pending"

\* service.on('update', ...) of connector c and the call of its start().
startService(sch, c) ==
    [ sch EXCEPT !.running = @ \cup { c }, !.listeners[c] = @ + 1 ]

Started(hyb, c, threw) ==
    IF c \in Connectors THEN [ hyb EXCEPT ![c] = awaitedStart(c, hyb[c], threw) ] ELSE hyb

\* The await of call is over: its promise is dropped.
Awaited(hyb, call) ==
    IF call.promise = 0 THEN hyb
    ELSE [ hyb EXCEPT ![StartOrder[call.at]].promises = RemoveAt(@, call.promise) ]

\* The calls that wait for a later promise of the same connector.
AfterAwait(calls, call) ==
    [ j \in 1..Len(calls) |->
        IF calls[j].at = call.at /\ calls[j].promise > call.promise /\ call.promise > 0
        THEN [ calls[j] EXCEPT !.promise = @ - 1 ] ELSE calls[j] ]

\* startScheduler() up to its first await: the cache is seeded and Paradex
\* is started.
startSchedulerEnter(threw) ==
    /\ impl = "ts"
    /\ inbox = << >>
    /\ hybrid[StartOrder[1]].starts < MaxStarts
    /\ started' = TRUE
    /\ PRICE_CACHE' = [ s \in Allowed |-> createPair(s) ]
    /\ hybrid' = Started(hybrid, StartOrder[1], threw)
    /\ scheduler' = [ startService(scheduler, StartOrder[1]) EXCEPT
                        !.stops = 0,
                        !.calls = Append(@, Call(1, hybrid', threw)) ]
    /\ stages' = << >>
    /\ UNCHANGED << polls, adapter, push, vestPull, fetching, impl, now, wsBroadcaster, lastDbSave,
                    lastBroadcastTime, broadcastPending, timers, alertCache, dbQueue,
                    alerts, events, saveAlertResult, failed, sink, win, ignored,
                    inbox, priceMetrics >>

\* The i-th suspended startScheduler() goes from one await to the next: the
\* start() it waited for has settled, the next connector is started; after
\* the last one it returns.
startSchedulerResume(i) ==
    /\ impl = "ts"
    /\ inbox = << >>
    /\ i \in 1..Len(scheduler.calls)
    /\ Settled(scheduler.calls[i])
    /\ LET call == scheduler.calls[i]
           calls == AfterAwait(scheduler.calls, call)
           awaited == Awaited(hybrid, call)
       IN IF call.at < Len(StartOrder)
          THEN /\ hybrid' = Started(awaited, StartOrder[call.at + 1], FALSE)
               /\ scheduler' = [ startService(scheduler, StartOrder[call.at + 1]) EXCEPT
                                   !.calls = [ calls EXCEPT
                                                 ![i] = Call(call.at + 1, hybrid', FALSE) ] ]
          ELSE /\ hybrid' = awaited
               /\ scheduler' = [ scheduler EXCEPT !.calls = RemoveAt(calls, i) ]
    /\ stages' = << >>
    /\ UNCHANGED << polls, adapter, push, vestPull, fetching, impl, now, started, PRICE_CACHE,
                    wsBroadcaster, lastDbSave, lastBroadcastTime, broadcastPending,
                    timers, alertCache, dbQueue, alerts, events, saveAlertResult,
                    failed, sink, win, ignored, inbox, priceMetrics >>

\* stopScheduler(): ts calls stop() of every connector; js disconnects the
\* socket it holds and clears its poll timers.
stopScheduler ==
    /\ inbox = << >>
    /\ stages' = << >>
    /\ scheduler.stops < MaxStops
    /\ scheduler' = [ stopIn(StopOrder, scheduler) EXCEPT !.stops = @ + 1 ]
    /\ hybrid' = IF impl = "ts"
                 THEN [ c \in Connectors |-> stopCall(c, hybrid[c]) ]
                 ELSE hybrid
    /\ UNCHANGED << polls, adapter, push, vestPull, fetching, impl, now, started, PRICE_CACHE, wsBroadcaster, lastDbSave,
                    lastBroadcastTime, broadcastPending, timers, alertCache, dbQueue,
                    alerts, events, saveAlertResult, failed, sink, win, ignored,
                    inbox, priceMetrics >>

\* No startScheduler() is suspended at an await.
Returned == scheduler.calls = << >>

----------------------------------------------------------------------------
(* Push services (js): VestWebSocketService and LighterWebSocketService.    *)
(* The socket is "none" (none created yet, or its close event emitted),     *)
(* "connecting", "open", "aborted" (close() called before it opened: its     *)
(* error event is due, then its close event), "failing" (error event         *)
(* emitted, close event due) or "closing" (close() called while open, close  *)
(* event due).  socket is the socket this.ws holds; a connect() that finds    *)
(* this.ws with a socket whose close event is still due leaves that socket   *)
(* with its handlers in place: it is superseded.  Event i of a service is    *)
(* an event of this.ws (i = 0) or of superseded socket i.                    *)

PushServices == { "VestWS", "LighterWS" }

NewPush ==
    [ begun |-> FALSE,              \* connect() has been called from outside
      socket |-> "none",
      superseded |-> << >>,         \* sockets this.ws no longer holds, events due
      isConnected |-> FALSE,
      reconnectAttempts |-> 0,
      reconnects |-> << >>,         \* pending setTimeout callbacks that connect()
      pingInterval |-> FALSE,
      leaked |-> 0,                 \* ping intervals whose handle startPing() overwrote
      indices |-> FALSE,            \* Lighter: marketIndexMap is not empty
      awaiting |-> 0,               \* Lighter: connect() calls suspended at
                                    \* await this.fetchMarketIndices()
      unanswered |-> 0 ]            \* keep-alives sent since the last message

\* Vest WS: a delay that grows with every attempt.
VestDelayUncapped(attempt) == reconnectDelay * attempt

\* Vest WS: this.reconnectDelay * Math.min(this.reconnectAttempts, 5).
VestDelay(attempt) == reconnectDelay * Min(attempt, VEST_DELAY_STEPS)

\* Lighter WS: Math.min(this.reconnectDelay * Math.pow(2, attempts - 1), 30000).
LighterDelay(attempt) == Min(reconnectDelay * 2 ^ (attempt - 1), RECONNECT_CAP)

PushDelay(svc, attempt) ==
    IF svc = "VestWS" THEN VestDelay(attempt) ELSE LighterDelay(attempt)

\* scheduleReconnect() of the two services.
scheduleReconnectWS(svc, p) ==
    IF p.reconnectAttempts < maxReconnectAttemptsWS
    THEN [ p EXCEPT !.reconnectAttempts = @ + 1,
                    !.reconnects =
                        Append(@, [ attempt |-> p.reconnectAttempts + 1,
                                    delay |-> PushDelay(svc, p.reconnectAttempts + 1),
                                    reset |-> FALSE ]) ]
    ELSE IF svc = "LighterWS"
    THEN [ p EXCEPT !.reconnects =
                        Append(@, [ attempt |-> 0, delay |-> RETRY_DELAY, reset |-> TRUE ]) ]
    ELSE p

\* A market of the reply to Lighter's request for its markets; symbol is the
\* sequence of its parts between dashes (<< >>: the field is missing),
\* market_id may be UNDEFINED.
IndexMarket(symbol, market_type, status, market_id) ==
    [ symbol |-> symbol, market_type |-> market_type, status |-> status,
      market_id |-> market_id ]

\* The forEach of fetchMarketIndices() over the markets from position i on:
\* an active perpetual market with an id whose symbol isCrypto is mapped and
\* counted; one without a symbol throws (split of undefined) and ends the
\* loop, with the markets before it mapped.
RECURSIVE mapMarkets(_, _, _)
mapMarkets(markets, i, count) ==
    IF i > Len(markets) THEN [ count |-> count, threw |-> FALSE ]
    ELSE LET m == markets[i]
         IN IF m.market_type = "perp" /\ m.status = "active" /\ m.market_id # UNDEFINED
            THEN IF m.symbol = << >> THEN [ count |-> count, threw |-> TRUE ]
                 ELSE IF isCrypto(m.symbol[1]) THEN mapMarkets(markets, i + 1, count + 1)
                 ELSE mapMarkets(markets, i + 1, count)
            ELSE mapMarkets(markets, i + 1, count)

\* fetchMarketIndices(): what it returns and how many markets it has mapped.
\* A request that fails and an exception of the loop are caught: false.
fetchMarketIndices(reply) ==
    IF ~reply.ok THEN [ success |-> FALSE, mapped |-> 0 ]
    ELSE LET done == mapMarkets(reply.markets, 1, 0)
         IN [ success |-> ~done.threw /\ done.count > 0, mapped |-> done.count ]

\* The replies to the request: it fails, it has no market, it has markets
\* that are mapped, markets that are passed over, and a market without a
\* symbol before or after one that is mapped.
IndexReplies ==
    LET btc == IndexMarket(<< "BTC", "USD" >>, "perp", "active", 1)
        eth == IndexMarket(<< "ETH" >>, "perp", "active", 0)
        nameless == IndexMarket(<< >>, "perp", "active", 2)
    IN { [ ok |-> FALSE, markets |-> << >> ],
         [ ok |-> TRUE, markets |-> << >> ],
         [ ok |-> TRUE, markets |-> << btc, eth >> ],
         [ ok |-> TRUE, markets |-> << btc, nameless >> ],
         [ ok |-> TRUE, markets |-> << nameless, btc >> ],
         [ ok |-> TRUE, markets |-> << [ btc EXCEPT !.market_type = "spot" ] >> ],
         [ ok |-> TRUE, markets |-> << [ btc EXCEPT !.status = "inactive" ] >> ],
         [ ok |-> TRUE, markets |-> << [ btc EXCEPT !.market_id = UNDEFINED ] >> ],
         [ ok |-> TRUE, markets |-> << [ btc EXCEPT !.symbol = << "EUR", "USD" >> ] >> ],
         [ ok |-> TRUE, markets |-> << [ nameless EXCEPT !.market_type = "spot" ], eth >> ] }

\* The try block of connect(): the socket is created and its handlers
\* registered; when new WebSocket() throws, the catch block calls
\* scheduleReconnect() and this.ws stays what it was.  this.ws is assigned
\* without a look at the socket it holds.
openSocket(svc, p, threw) ==
    IF threw THEN scheduleReconnectWS(svc, p)
    ELSE [ p EXCEPT !.socket = "connecting",
                    !.superseded = IF p.socket = "none" THEN @
                                   ELSE Append(@, p.socket) ]

\* connect() up to its first return to the event loop: Lighter with an empty
\* marketIndexMap sends the request for its markets and waits for it.
connectWS(svc, p, threw) ==
    IF svc = "LighterWS" /\ ~p.indices
    THEN [ p EXCEPT !.awaiting = @ + 1 ]
    ELSE openSocket(svc, p, threw)

\* connect() of Lighter after its await: without success it tries again
\* after reconnectDelay, else the socket is created.
connectResume(svc, p, reply, threw) ==
    LET got == fetchMarketIndices(reply)
        settled == [ p EXCEPT !.awaiting = @ - 1,
                              !.indices = @ \/ got.mapped > 0 ]
    IN IF ~got.success
       THEN [ settled EXCEPT !.reconnects =
                Append(@, [ attempt |-> 0, delay |-> reconnectDelay, reset |-> FALSE ]) ]
       ELSE openSocket(svc, settled, threw)

\* VestWebSocketService.disconnect(): close() on the socket this.ws holds;
\* this.ws, isConnected and the ping interval stay as they are.
disconnectWS(p) == [ p EXCEPT !.socket = Closed(@) ]

\* A step of push service svc that leaves it as p and touches nothing else.
PushBecomes(svc, p) ==
    /\ impl = "js"
    /\ push' = [ push EXCEPT ![svc] = p ]
    /\ UNCHANGED << polls, hybrid, adapter, vestPull, fetching, impl, now, started, PRICE_CACHE,
                    wsBroadcaster, lastDbSave, lastBroadcastTime, broadcastPending,
                    timers, alertCache, dbQueue, alerts, events, saveAlertResult,
                    failed, sink, win, ignored, inbox, stages, priceMetrics,
                    scheduler >>

\* The state of the socket of event i.
SocketAt(p, i) == IF i = 0 THEN p.socket ELSE p.superseded[i]

\* The socket of event i goes to a state; a superseded socket whose close
\* event has been emitted is gone.
SocketTo(p, i, state) ==
    IF i = 0 THEN [ p EXCEPT !.socket = state ]
    ELSE IF state = "none" THEN [ p EXCEPT !.superseded = RemoveAt(@, i) ]
    ELSE [ p EXCEPT !.superseded[i] = state ]

\* connect() is called from outside.
pushConnect(svc, threw) ==
    PushBecomes(svc, connectWS(svc, [ push[svc] EXCEPT !.begun = TRUE ], threw))

\* The request of a suspended connect() of Lighter settles.
pushIndices(svc, reply, threw) ==
    /\ push[svc].awaiting > 0
    /\ PushBecomes(svc, connectResume(svc, push[svc], reply, threw))

\* disconnect() is called; only VestWebSocketService has it.
pushDisconnect(svc) ==
    /\ svc = "VestWS"
    /\ push[svc].socket # "none"
    /\ PushBecomes(svc, disconnectWS(push[svc]))

\* 'open': isConnected, the counter reset, startPing(), which sets a new
\* interval whatever this.pingInterval holds.
pushOpen(svc, i) ==
    /\ SocketAt(push[svc], i) = "connecting"
    /\ PushBecomes(svc, [ SocketTo(push[svc], i, "open") EXCEPT
                            !.isConnected = TRUE,
                            !.reconnectAttempts = 0,
                            !.leaked = IF push[svc].pingInterval THEN @ + 1 ELSE @,
                            !.pingInterval = TRUE,
                            !.unanswered = IF i = 0 THEN 0 ELSE @ ])

\* 'message': handleMessage(); nothing of the connection changes.
pushMessage(svc, i) ==
    /\ SocketAt(push[svc], i) \in { "open", "closing" }
    /\ PushBecomes(svc, [ push[svc] EXCEPT !.unanswered = IF i = 0 THEN 0 ELSE @ ])

\* 'error': logged.
pushError(svc, i) ==
    /\ SocketAt(push[svc], i) \in { "connecting", "open", "aborted", "closing" }
    /\ PushBecomes(svc, SocketTo(push[svc], i, "failing"))

\* 'close': isConnected cleared, stopPing(), scheduleReconnect().
pushClose(svc, i) ==
    /\ SocketAt(push[svc], i) \in { "open", "failing", "closing" }
    /\ PushBecomes(svc, scheduleReconnectWS(svc,
                            [ SocketTo(push[svc], i, "none") EXCEPT
                                !.isConnected = FALSE,
                                !.pingInterval = FALSE,
                                !.unanswered = IF i = 0 THEN 0 ELSE @ ]))

\* A tick of the ping interval: with a socket and isConnected the keep-alive
\* is sent (a send that throws is swallowed); nothing else is looked at.
pushPing(svc) ==
    /\ push[svc].pingInterval \/ push[svc].leaked > 0
    /\ push[svc].socket = "open" /\ push[svc].isConnected
    /\ push[svc].unanswered < MaxPings
    /\ PushBecomes(svc, [ push[svc] EXCEPT !.unanswered = @ + 1 ])

\* The callback of a timer of scheduleReconnect() or of connect().
pushReconnect(svc, threw) ==
    /\ push[svc].reconnects # << >>
    /\ LET t == Head(push[svc].reconnects)
           p == [ push[svc] EXCEPT !.reconnects = Tail(@),
                                   !.reconnectAttempts = IF t.reset THEN 0 ELSE @ ]
       IN PushBecomes(svc, connectWS(svc, p, threw))

----------------------------------------------------------------------------
(* Vest fetchMarkets(): the depth requests of one invocation go out in      *)
(* batches of CONCURRENCY, each batch awaited, then sleep(100).  An          *)
(* invocation is [queue, inflight, phase]: the symbols not yet requested,    *)
(* the depth requests in flight, and "ticker" (it awaits the answer to its   *)
(* ticker request), "batch" or "sleep".  The invocations stand in the order  *)
(* in which they were called.                                                *)

\* symbolsToFetch.slice(i, i + CONCURRENCY) goes out.
NextBatch(queue) ==
    [ queue |-> queue - Min(CONCURRENCY, queue),
      inflight |-> Min(CONCURRENCY, queue),
      phase |-> "batch", delay |-> 0 ]

VestBecomes(v) ==
    /\ vestPull' = v
    /\ UNCHANGED << polls, hybrid, adapter, push, fetching, impl, now, started, PRICE_CACHE,
                    wsBroadcaster, lastDbSave, lastBroadcastTime, broadcastPending,
                    timers, alertCache, dbQueue, alerts, events, saveAlertResult,
                    failed, sink, win, ignored, inbox, stages, priceMetrics,
                    scheduler >>

\* fetchMarkets() up to its first await: the ticker request is out.
AwaitsTicker == [ queue |-> 0, inflight |-> 0, phase |-> "ticker", delay |-> 0 ]

\* A tick of the poll timer (or the first call): fetchMarkets() is invoked
\* and sends its ticker request.  Nothing looks at the invocations that have
\* not returned.
vestPollTick ==
    /\ Len(vestPull) < MaxOverlap
    /\ VestBecomes(Append(vestPull, AwaitsTicker))

\* The ticker request of invocation i settles.  When it fails the catch
\* block logs it and fetchMarkets() returns; when the response names no
\* allow-listed -PERP symbol the loop has nothing to do; else the first
\* batch of depth requests goes out.
vestTicker(i, ok, n) ==
    /\ vestPull[i].phase = "ticker"
    /\ VestBecomes(IF ~ok \/ n = 0
                   THEN RemoveAt(vestPull, i)
                   ELSE [ vestPull EXCEPT ![i] = NextBatch(n) ])

\* A depth request of invocation i returns; with the last one of the batch
\* Promise.all resolves and the invocation sleeps.
vestDepthDone(i) ==
    /\ vestPull[i].phase = "batch"
    /\ VestBecomes([ vestPull EXCEPT ![i] =
                       IF @.inflight = 1
                       THEN [ @ EXCEPT !.inflight = 0, !.phase = "sleep",
                                       !.delay = BATCH_DELAY ]
                       ELSE [ @ EXCEPT !.inflight = @ - 1 ] ])

\* sleep(100) of invocation i is over: the next batch goes out, or the loop
\* ends and fetchMarkets() returns.
vestSleepDone(i) ==
    /\ vestPull[i].phase = "sleep"
    /\ VestBecomes(IF vestPull[i].queue = 0
                   THEN RemoveAt(vestPull, i)
                   ELSE [ vestPull EXCEPT ![i] = NextBatch(@.queue) ])

----------------------------------------------------------------------------
Init ==
    /\ impl \in { "ts", "js" }
    /\ now = Epoch
    /\ started = FALSE
    /\ PRICE_CACHE = << >>
    /\ wsBroadcaster = FALSE
    /\ lastDbSave = [ s \in AllSymbols |-> 0 ]
    /\ lastBroadcastTime = 0
    /\ broadcastPending = FALSE
    /\ timers = << >>
    /\ alertCache = [ s \in AllSymbols |-> 0 ]
    /\ dbQueue = << >>
    /\ alerts = << >>
    /\ events = 0
    /\ saveAlertResult = [ s \in AllSymbols |-> "none" ]
    /\ failed = [ s \in AllSymbols |-> [ at |-> 0, retry |-> 0 ] ]
    /\ sink = [ last |-> 0, prev |-> 0, snapshot |-> << >>, waitingSince |-> 0 ]
    /\ win = [ start |-> 0, n |-> 0, b |-> 0 ]
    /\ ignored = { }
    /\ inbox = << >>
    /\ stages = << >>
    /\ priceMetrics = << >>
    /\ scheduler = [ listeners |-> [ ex \in Exchanges("ts") |-> 0 ], running |-> { },
                     paradexWS |-> FALSE, sockets |-> 0,
                     lighterInterval |-> FALSE, vestInterval |-> FALSE,
                     due |-> [ ex \in Polled |-> 0 ],
                     intervals |-> 0, stops |-> 0, calls |-> << >> ]
    /\ polls = [ ex \in Polled |-> 0 ]
    /\ hybrid = [ c \in Connectors |-> NewConnector ]
    /\ adapter = << >>
    /\ push = [ svc \in PushServices |-> NewPush ]
    /\ vestPull = << >>
    /\ fetching = << >>

Next ==
    \/ setWebSocketBroadcaster
    \/ startScheduler
    \/ \E threw \in BOOLEAN : startSchedulerEnter(threw)
    \/ \E i \in 1..MaxStarts : startSchedulerResume(i)
    \/ \E n \in 1..MaxStarts : connectTimeout(n)
    \/ \E i \in 1..MaxStarts : wsOpen(i)
    \/ \E ex \in Polled : pollTick(ex)
    \/ TickPoll
    \/ \E ex \in Polled : pollFails(ex)
    \/ \E f \in Feed : \E threw \in BOOLEAN : handleUpdate(f, threw)
    \/ \E m \in Batches(Feed, "paradex") : \E threw \in BOOLEAN : handleParadexData(m, threw)
    \/ \E m \in Batches(Feed, "vest") : \E threw \in BOOLEAN : updateVestData(m, threw)
    \/ \E m \in Batches(Feed, "lighter") : \E threw \in BOOLEAN : updateLighterData(m, threw)
    \/ \E i \in 1..Len(timers) : trailingTimer(i)
    \/ \E i \in 1..Len(timers) : trailingTimerThrows(i)
    \/ dbRunSucceeds
    \/ dbRunFails
    \/ TickFine
    \/ TickCoarse
    \/ TickSave
    \/ stopScheduler
    \/ saveTopPairsToDb

Spec == Init /\ [][Next]_vars

\* The alert gate on its own: no broadcast sink is registered, the connectors
\* deliver AlertFeed, the clock moves in coarse steps.  The js variant is
\* followed up to the first tick of its poll timers, which a coarse step
\* would pass over.
NextAlerts ==
    \/ ~started /\ startScheduler
    \/ ~started /\ startSchedulerEnter(FALSE)
    \/ \E i \in 1..MaxStarts : ~Returned /\ wsOpen(i)
    \/ \E i \in 1..MaxStarts : startSchedulerResume(i)
    \/ \E f \in AlertFeed : Returned /\ handleUpdate(f, FALSE)
    \/ \E m \in Batches(AlertFeed, "paradex") : handleParadexData(m, FALSE)
    \/ \E m \in Batches(AlertFeed, "vest") : updateVestData(m, FALSE)
    \/ \E m \in Batches(AlertFeed, "lighter") : updateLighterData(m, FALSE)
    \/ dbRunSucceeds
    \/ dbRunFails
    \/ TickCoarse

SpecAlerts == Init /\ [][NextAlerts]_vars

\* The broadcast throttle on its own: the connectors deliver QuietFeed, so no
\* alert is written, and the clock moves in fine steps.
NextBroadcast ==
    \/ setWebSocketBroadcaster
    \/ ~started /\ startScheduler
    \/ ~started /\ startSchedulerEnter(FALSE)
    \/ \E i \in 1..MaxStarts : ~Returned /\ wsOpen(i)
    \/ \E i \in 1..MaxStarts : startSchedulerResume(i)
    \/ \E f \in QuietFeed : Returned /\ handleUpdate(f, FALSE)
    \/ \E m \in Batches(QuietFeed, "paradex") : handleParadexData(m, FALSE)
    \/ \E m \in Batches(QuietFeed, "vest") : updateVestData(m, FALSE)
    \/ \E m \in Batches(QuietFeed, "lighter") : updateLighterData(m, FALSE)
    \/ \E i \in 1..Len(timers) : trailingTimer(i)
    \/ TickFine

SpecBroadcast == Init /\ [][NextBroadcast]_vars

\* The price cache and the persistence throttle on their own: one start, the
\* connectors deliver CacheFeed, the clock moves by one persistence throttle
\* and by one staleness window.  While the poll timers of the js variant are
\* set the clock moves from tick to tick, each tick issues a request, and a
\* request is answered or fails.
NextCache ==
    \/ ~started /\ startScheduler
    \/ ~started /\ startSchedulerEnter(FALSE)
    \/ \E i \in 1..MaxStarts : ~Returned /\ wsOpen(i)
    \/ \E i \in 1..MaxStarts : startSchedulerResume(i)
    \/ \E f \in CacheFeed : Returned /\ handleUpdate(f, FALSE)
    \/ \E m \in Batches(CacheFeed, "paradex") : handleParadexData(m, FALSE)
    \/ \E m \in Batches(CacheFeed, "vest") : updateVestData(m, FALSE)
    \/ \E m \in Batches(CacheFeed, "lighter") : updateLighterData(m, FALSE)
    \/ TickSave
    \/ TickCoarse
    \/ \E ex \in Polled : pollTick(ex)
    \/ \E ex \in Polled : pollFails(ex)
    \/ TickPoll

SpecCache == Init /\ [][NextCache]_vars

\* The cache under the same quotes with the periodic save of the top pairs,
\* which may run at any point after the start.
NextMetrics ==
    \/ ~started /\ startScheduler
    \/ ~started /\ startSchedulerEnter(FALSE)
    \/ \E i \in 1..MaxStarts : ~Returned /\ wsOpen(i)
    \/ \E i \in 1..MaxStarts : startSchedulerResume(i)
    \/ \E f \in CacheFeed : Returned /\ handleUpdate(f, FALSE)
    \/ \E m \in Batches(CacheFeed, "paradex") : handleParadexData(m, FALSE)
    \/ \E m \in Batches(CacheFeed, "vest") : updateVestData(m, FALSE)
    \/ \E m \in Batches(CacheFeed, "lighter") : updateLighterData(m, FALSE)
    \/ saveTopPairsToDb
    \/ TickCoarse
    \/ \E ex \in Polled : pollTick(ex)
    \/ \E ex \in Polled : pollFails(ex)
    \/ TickPoll

SpecMetrics == Init /\ [][NextMetrics]_vars

\* Start and stop, called any number of times and at any point, also while
\* a startScheduler() of ts is suspended at an await, which the open of the
\* socket ends.  A connector of ts emits while it runs and no
\* startScheduler() is suspended, a poll response arrives only for a request
\* that is in flight, the poll timers tick.
NextLifecycle ==
    \/ startScheduler
    \/ startSchedulerEnter(FALSE)
    \/ \E i \in 1..MaxStarts : startSchedulerResume(i)
    \/ \E i \in 1..MaxStarts : wsOpen(i)
    \/ stopScheduler
    \/ \E ex \in Polled : pollTick(ex)
    \/ TickPoll
    \/ \E ex \in Polled : pollFails(ex)
    \/ \E f \in LifeFeed :
          f[1] \in scheduler.running /\ Returned /\ handleUpdate(f, FALSE)
    \/ \E m \in Batches(LifeFeed, "paradex") : handleParadexData(m, FALSE)
    \/ \E m \in Batches(LifeFeed, "vest") : updateVestData(m, FALSE)
    \/ \E m \in Batches(LifeFeed, "lighter") : updateLighterData(m, FALSE)

SpecLifecycle == Init /\ [][NextLifecycle]_vars

\* The hybrid connector of Paradex: started and stopped, its sockets open,
\* fail and close, its reconnect timers fire, its fallback poll ticks.
PollResponses(c) ==
    { [ ok |-> TRUE, records |-> << Rec(c, WireSymbol(c, "BTC"), 1001, 1004, "ok") >> ] }

NextHybrid ==
    \/ \E threw \in BOOLEAN : start("paradex", threw)
    \/ stop("paradex")
    \/ \E i \in 1..MaxStarts : wsOpen(i)
    \/ \E i \in 1..MaxStarts : wsError(i)
    \/ \E i \in 1..MaxStarts : wsClose(i)
    \/ \E i \in 1..MaxStarts : \E frame \in WsFrames : wsMessage(i, frame)
    \/ \E k \in 1..MaxStarts : \E threw \in BOOLEAN : reconnectTimer(k, threw)
    \/ \E response \in PollResponses("paradex") : fallbackPoll("paradex", response)

SpecHybrid == Init /\ [][NextHybrid]_vars

\* The REST-only connectors: started, stopped, polling.
NextPull ==
    \/ \E c \in { "vest", "extended" } : start(c, FALSE)
    \/ \E c \in { "vest", "extended" } : stop(c)
    \/ \E c \in { "vest", "extended" } :
          \E response \in PollResponses(c) : fallbackPoll(c, response)

SpecPull == Init /\ [][NextPull]_vars

\* The push services of the js variant.  Nothing in the sources calls
\* connect() of a service from outside more than once, so each is connected
\* once; every later connect() is one of its own timers.
NextPush ==
    \/ \E svc \in PushServices : \E threw \in BOOLEAN :
          ~push[svc].begun /\ pushConnect(svc, threw)
    \/ \E svc \in PushServices : \E reply \in IndexReplies : \E threw \in BOOLEAN :
          pushIndices(svc, reply, threw)
    \/ \E svc \in PushServices : pushDisconnect(svc)
    \/ \E svc \in PushServices : \E i \in 0..Len(push[svc].superseded) : pushOpen(svc, i)
    \/ \E svc \in PushServices : \E i \in 0..Len(push[svc].superseded) : pushMessage(svc, i)
    \/ \E svc \in PushServices : \E i \in 0..Len(push[svc].superseded) : pushError(svc, i)
    \/ \E svc \in PushServices : \E i \in 0..Len(push[svc].superseded) : pushClose(svc, i)
    \/ \E svc \in PushServices : pushPing(svc)
    \/ \E svc \in PushServices : \E threw \in BOOLEAN : pushReconnect(svc, threw)

SpecPush == Init /\ [][NextPush]_vars

\* The Vest poll: ticks of the poll timer and the requests of the
\* invocations they start.
NextVestPull ==
    \/ vestPollTick
    \/ \E i \in 1..Len(vestPull) : \E ok \in BOOLEAN : \E n \in 0..MaxSymbols :
          vestTicker(i, ok, n)
    \/ \E i \in 1..Len(vestPull) : vestDepthDone(i)
    \/ \E i \in 1..Len(vestPull) : vestSleepDone(i)

SpecVestPull == Init /\ [][NextVestPull]_vars

\* startScheduler() of ts with its awaits, and the socket of Paradex
\* opening, failing and closing, or staying silent.  Timers fire and a
\* settled await resumes.
NextStart ==
    \/ \E threw \in BOOLEAN : Returned /\ startSchedulerEnter(threw)
    \/ \E i \in 1..MaxStarts : startSchedulerResume(i)
    \/ \E n \in 1..MaxStarts : connectTimeout(n)
    \/ \E i \in 1..MaxStarts : wsOpen(i)
    \/ \E i \in 1..MaxStarts : wsError(i)
    \/ \E i \in 1..MaxStarts : wsClose(i)
    \/ \E k \in 1..MaxStarts : \E threw \in BOOLEAN : reconnectTimer(k, threw)

SpecStart ==
    /\ Init /\ [][NextStart]_vars
    /\ WF_vars(\E i \in 1..MaxStarts : startSchedulerResume(i))
    /\ WF_vars(\E n \in 1..MaxStarts : connectTimeout(n))

\* The pull adapters on their own: one fetchMarkets() call of one venue on
\* one response.
NextAdapters ==
    \/ \E venue \in Venues : fetch(venue)
    \/ \E venue \in Venues : \E response \in Responses(venue) :
          fetchAnswered(venue, response)
    \/ fetchDepthAnswered
    \/ fetchSleepOver

SpecAdapters == Init /\ [][NextAdapters]_vars

----------------------------------------------------------------------------
(* Claims                                                                  *)

Rows == Range(alerts)
Issued == Range(alerts) \cup Range(dbQueue)

\* C1: for every symbol, two qualifying spread events within the cool-down
\* yield one persisted AlertRecord: no two rows of the alerts table for one
\* symbol lie less than CACHE_TTL apart, whatever the interleaving of
\* saveAlert() calls and storage callbacks.  Rows of spreads across two venues
\* are enough to decide it.
C1_AlertDedup ==
    \A i \in 1..Len(alerts) : \A j \in 1..Len(alerts) :
        ( /\ i < j
          /\ alerts[i].symbol = alerts[j].symbol
          /\ alerts[i].exchange_buy # alerts[i].exchange_sell
          /\ alerts[j].exchange_buy # alerts[j].exchange_sell )
            => alerts[j].timestamp - alerts[i].timestamp >= CACHE_TTL

\* C2: after a failed alert write for a symbol, no further write for that
\* symbol is attempted until the cool-down has elapsed since the failed one.
C2_NoRetryWithinCooldown ==
    \A s \in AllSymbols :
        failed[s].retry # 0 => failed[s].retry - failed[s].at >= CACHE_TTL

\* C3: a storage write of saveAlert() is issued only for a spread that
\* reaches the threshold and whose best-bid venue differs from its best-ask
\* venue.
C3_AlertOnlyAcrossVenues ==
    \A r \in Issued :
        AtLeast(r.spread, Bps(ALERT_THRESHOLD)) /\ r.exchange_buy # r.exchange_sell

\* C4: every alert row is built from the recomputation that triggered it:
\* it buys at the best ask on the best-ask venue, sells at the best bid on the
\* best-bid venue and carries the symbol's spread; the row that is persisted
\* is the row that was issued.
C4_AlertRecordFields ==
    [][ /\ events' # events =>
            \A i \in (Len(dbQueue) + 1)..Len(dbQueue') :
                LET r == dbQueue'[i]
                    p == PRICE_CACHE'[r.symbol]
                IN /\ r.exchange_buy = p.bestAskEx /\ r.price_buy = p.bestAsk
                   /\ r.exchange_sell = p.bestBidEx /\ r.price_sell = p.bestBid
                   /\ r.spread = p.realSpread
                   /\ r.timestamp = now
        /\ Len(alerts') > Len(alerts) => alerts' = Append(alerts, Head(dbQueue))
      ]_vars

C4_Witness ==
    \E r \in Rows :
        /\ r.symbol = "BTC"
        /\ r.exchange_buy = "paradex" /\ r.price_buy = 1002
        /\ r.exchange_sell = "vest" /\ r.price_sell = 1020
        /\ Floor(r.spread) = 179

\* C5: a saveAlert() that the cool-down suppresses resolves with null, issues
\* no storage write and leaves the symbol's last-alert time as it was.
C5_SuppressedAlert ==
    [][ events' # events =>
          \A s \in AllSymbols :
              saveAlertResult'[s] = "null" =>
                  /\ alertCache'[s] = alertCache[s]
                  /\ \A i \in (Len(dbQueue) + 1)..Len(dbQueue') : dbQueue'[i].symbol # s
      ]_vars

C5_Witness ==
    \E s \in Allowed :
        /\ saveAlertResult[s] = "null"
        /\ alertCache[s] # 0
        /\ \A r \in Range(dbQueue) : r.symbol # s

\* C6: two consecutive invocations of the broadcast sink are at least one
\* throttle window apart, whatever the signals and the timer firings.
C6_BroadcastRate ==
    sink.prev # 0 => sink.last - sink.prev >= BROADCAST_THROTTLE

\* C7: with a sink registered and a snapshot that is not empty, every
\* cache-change signal is followed by a broadcast of the cache at or after it
\* no later than one throttle window after it: a signal the sink has not been
\* invoked for has a trailing timer pending that is due within one window of
\* it, no more than one window has passed since it, and once no signal is
\* waiting the snapshot the sink was handed last is the current cache.
C7_TrailingDelivery ==
    /\ sink.waitingSince # 0 =>
          /\ now <= sink.waitingSince + BROADCAST_THROTTLE
          /\ \E i \in 1..Len(timers) :
                timers[i] <= sink.waitingSince + BROADCAST_THROTTLE
    /\ (sink.waitingSince = 0 /\ sink.last # 0) =>
          sink.snapshot = getPriceCache(PRICE_CACHE)

Populated(snapshot) ==
    \E s \in DOMAIN snapshot : \E ex \in DOMAIN snapshot[s].quotes :
        snapshot[s].quotes[ex].bid > 0 \/ snapshot[s].quotes[ex].ask > 0

C9_NoEmptyBroadcast ==
    sink.last # 0 => Populated(sink.snapshot)

\* C10: once started, the symbols of the price cache are exactly the
\* allow-list and getPriceCache() returns allow-listed symbols only; an
\* update for any other symbol creates no entry and changes no entry: the
\* handler leaves the cache as it would without that update.
OnAllowList(markets) == SelectSeq(markets, LAMBDA f : f[2] \in Allowed)

C10_AllowList ==
    /\ [](started =>
            /\ DOMAIN PRICE_CACHE = Allowed
            /\ DOMAIN getPriceCache(PRICE_CACHE) = Allowed
            /\ DOMAIN sink.snapshot \subseteq Allowed
            /\ ignored \cap Allowed = { })
    /\ [][ /\ \A f \in Feed :
                 (f[2] \notin Allowed /\ handleUpdate(f, FALSE))
                     => PRICE_CACHE' = PRICE_CACHE
          /\ \A ex \in Exchanges("js") : \A m \in Batches(Feed, ex) :
                 venueHandler(ex, m, FALSE)
                     => PRICE_CACHE' =
                          calculateSpreads(applyMarkets(PRICE_CACHE, ex, OnAllowList(m)))
        ]_vars

C10_Witness ==
    /\ started
    /\ "DOGE" \in ignored
    /\ "DOGE" \notin DOMAIN PRICE_CACHE
    /\ sink.last # 0

----------------------------------------------------------------------------
(* Claims on the price cache                                               *)

BestOf(pair) == << pair.bestBid, pair.bestAsk, pair.realSpread >>

\* The quote handleUpdate(f, FALSE) stores.
QuoteOf(f) ==
    [ bid |-> f[3], ask |-> f[4], timestamp |-> now - Lag(f),
      source |-> f[6] ]

\* C11: the stored timestamp of a (symbol, venue) never decreases: a quote
\* older than the stored one is rejected and leaves the stored quote and the
\* symbol's bestBid, bestAsk and spread as they were.
C11_OutOfOrderRejected ==
    [][ \A f \in CacheFeed :
          ( /\ handleUpdate(f, FALSE)
            /\ f[2] \in DOMAIN PRICE_CACHE
            /\ QuoteOf(f).timestamp < PRICE_CACHE[f[2]].quotes[f[1]].timestamp )
          => /\ PRICE_CACHE'[f[2]].quotes[f[1]] = PRICE_CACHE[f[2]].quotes[f[1]]
             /\ BestOf(PRICE_CACHE'[f[2]]) = BestOf(PRICE_CACHE[f[2]])
      ]_vars

\* C12, as stated: re-applying a quote that is already stored (same symbol,
\* venue, bid, ask and timestamp) leaves the symbol's bestBid, bestAsk and
\* spread unchanged.
C12_ReapplyLeavesBest ==
    [][ \A f \in CacheFeed :
          ( /\ handleUpdate(f, FALSE)
            /\ f[2] \in DOMAIN PRICE_CACHE
            /\ PRICE_CACHE[f[2]].quotes[f[1]] = QuoteOf(f) )
          => BestOf(PRICE_CACHE'[f[2]]) = BestOf(PRICE_CACHE[f[2]])
      ]_vars

\* Every stored quote of the pair that holds prices is inside the staleness
\* window now.
StillFresh(pair) ==
    \A ex \in DOMAIN pair.quotes :
        (pair.quotes[ex].bid > 0 /\ pair.quotes[ex].ask > 0)
            => /\ pair.quotes[ex].timestamp > 0
               /\ now - pair.quotes[ex].timestamp <= STALE_THRESHOLD

\* C12, as amended: re-applying a stored quote leaves every stored quote of
\* the symbol as it was, and leaves bestBid, bestAsk and spread unchanged
\* when every stored quote of the symbol is still inside the staleness
\* window; without timestamps (js) a list that repeats the stored quotes
\* changes nothing of the cache.
C12_ReapplyWhileFresh ==
    [][ /\ \A f \in CacheFeed :
             ( /\ handleUpdate(f, FALSE)
               /\ f[2] \in DOMAIN PRICE_CACHE
               /\ PRICE_CACHE[f[2]].quotes[f[1]] = QuoteOf(f) )
             => /\ PRICE_CACHE'[f[2]].quotes = PRICE_CACHE[f[2]].quotes
                /\ StillFresh(PRICE_CACHE[f[2]])
                     => BestOf(PRICE_CACHE'[f[2]]) = BestOf(PRICE_CACHE[f[2]])
        /\ \A ex \in Exchanges("js") : \A m \in Batches(CacheFeed, ex) :
             ( /\ venueHandler(ex, m, FALSE)
               /\ m # << >>
               /\ \A i \in 1..Len(m) :
                     /\ PRICE_CACHE[m[i][2]].quotes[ex].bid = m[i][3]
                     /\ PRICE_CACHE[m[i][2]].quotes[ex].ask = m[i][4] )
             => PRICE_CACHE' = PRICE_CACHE
      ]_vars

C12_Witness ==
    /\ impl = "ts"
    /\ stages # << >>
    /\ stages[1] = [ stage |-> "ingestion", symbol |-> "BTC", write |-> FALSE ]
    /\ PRICE_CACHE["BTC"].bestBidEx = "vest"
    /\ PRICE_CACHE["BTC"].bestAskEx = "paradex"

\* The venues whose stored quote is fresh and valid now.
FreshValid(pair) ==
    { ex \in DOMAIN pair.quotes :
        /\ pair.quotes[ex].timestamp > 0
        /\ now - pair.quotes[ex].timestamp <= STALE_THRESHOLD
        /\ pair.quotes[ex].bid > 0
        /\ pair.quotes[ex].ask > 0 }

\* C13: after each recomputation (ts) bestBid is the highest bid and bestAsk
\* the lowest ask over exactly the quotes that are fresh (0 < timestamp, age
\* <= 30 s) and valid (bid > 0, ask > 0) at that time; both are absent when
\* there is no such quote.
C13_BestOverFreshValid ==
    [][ (impl = "ts" /\ stages' # << >>) =>
          \A s \in DOMAIN PRICE_CACHE' :
              LET pair == PRICE_CACHE'[s]
                  F == FreshValid(pair)
              IN IF F = { }
                 THEN pair.bestBid = 0 /\ pair.bestAsk = 0
                 ELSE /\ \E ex \in F : pair.quotes[ex].bid = pair.bestBid
                      /\ \A ex \in F : pair.quotes[ex].bid <= pair.bestBid
                      /\ \E ex \in F : pair.quotes[ex].ask = pair.bestAsk
                      /\ \A ex \in F : pair.quotes[ex].ask >= pair.bestAsk
      ]_vars

\* Two venues are fresh on the edge of the window and the best prices come
\* from both.
C13_Witness ==
    /\ impl = "ts"
    /\ stages # << >>
    /\ now - PRICE_CACHE["BTC"].quotes["vest"].timestamp = STALE_THRESHOLD
    /\ PRICE_CACHE["BTC"].quotes["paradex"].timestamp > 0
    /\ PRICE_CACHE["BTC"].bestBid = 1001 /\ PRICE_CACHE["BTC"].bestBidEx = "vest"
    /\ PRICE_CACHE["BTC"].bestAsk = 1002 /\ PRICE_CACHE["BTC"].bestAskEx = "paradex"

\* The pair with the quotes that have left the staleness window taken out.
WithoutStale(pair) ==
    [ pair EXCEPT !.quotes =
        [ ex \in DOMAIN pair.quotes |->
            IF pair.quotes[ex].timestamp > 0
               /\ now - pair.quotes[ex].timestamp > STALE_THRESHOLD
            THEN EmptyQuote ELSE pair.quotes[ex] ] ]

\* C14: a recomputation (ts) leaves a quote that has left the staleness
\* window stored as it is and computes the symbol as it would from the
\* remaining venues alone; the venue counts again only once it has delivered
\* a newer quote.
C14_StaleExcluded ==
    [][ (impl = "ts" /\ stages' # << >>) =>
          \A s \in DOMAIN PRICE_CACHE' :
              /\ \A ex \in DOMAIN PRICE_CACHE'[s].quotes :
                    \/ PRICE_CACHE'[s].quotes[ex] = PRICE_CACHE[s].quotes[ex]
                    \/ \E f \in CacheFeed :
                          f[1] = ex /\ f[2] = s /\ PRICE_CACHE'[s].quotes[ex] = QuoteOf(f)
              /\ BestOf(PRICE_CACHE'[s]) = BestOf(recalcPair(WithoutStale(PRICE_CACHE'[s])))
              /\ \A ex \in DOMAIN PRICE_CACHE'[s].quotes :
                    ( /\ PRICE_CACHE'[s].quotes[ex].timestamp > 0
                      /\ now - PRICE_CACHE'[s].quotes[ex].timestamp > STALE_THRESHOLD )
                    => /\ PRICE_CACHE'[s].bestBidEx # ex
                       /\ PRICE_CACHE'[s].bestAskEx # ex
      ]_vars

\* vest holds the better bid but is stale: the bid of paradex is the best.
C14_Witness ==
    /\ impl = "ts"
    /\ stages # << >>
    /\ PRICE_CACHE["BTC"].quotes["vest"].bid = 1001
    /\ now - PRICE_CACHE["BTC"].quotes["vest"].timestamp > STALE_THRESHOLD
    /\ PRICE_CACHE["BTC"].bestBid = 1000
    /\ PRICE_CACHE["BTC"].bestBidEx = "paradex"

\* C15: a symbol without both best prices holds the no-signal value, a
\* freshly seeded one included, and saveTopPairsToDb() writes no row for it.
C15_NoSignalNeverZero ==
    /\ \A s \in DOMAIN PRICE_CACHE :
          (PRICE_CACHE[s].bestBid = 0 \/ PRICE_CACHE[s].bestAsk = 0)
              => PRICE_CACHE[s].realSpread \in { Bps(NO_SIGNAL), Unassigned }
    /\ \A i \in 1..Len(priceMetrics) :
          /\ priceMetrics[i].best_bid_exchange # "none"
          /\ priceMetrics[i].best_ask_exchange # "none"

\* C16: two consecutive saveSpread() writes of a symbol are at least
\* DB_SAVE_THROTTLE apart, and a write happens only for a symbol that has
\* both best prices.
C16_PersistenceThrottle ==
    [][ /\ \A i \in 1..Len(stages') :
             (stages'[i].stage = "persistence" /\ stages'[i].write) =>
                 LET s == stages'[i].symbol
                 IN /\ lastDbSave[s] = 0 \/ now - lastDbSave[s] >= DB_SAVE_THROTTLE
                    /\ lastDbSave'[s] = now
                    /\ PRICE_CACHE'[s].bestBid > 0 /\ PRICE_CACHE'[s].bestAsk > 0
        /\ \A s \in AllSymbols :
             lastDbSave'[s] # lastDbSave[s] =>
                 \E i \in 1..Len(stages') :
                     stages'[i] = [ stage |-> "persistence", symbol |-> s, write |-> TRUE ]
      ]_vars

\* BTC was written when vest delivered at the start, a later update was held
\* back, and BTC was written again exactly one throttle later.
C16_Witness ==
    /\ started
    /\ PRICE_CACHE["BTC"].quotes["vest"].bid = 1001
    /\ lastDbSave["BTC"] = Epoch + DB_SAVE_THROTTLE
    /\ now = lastDbSave["BTC"]
    /\ \E i \in 1..Len(stages) :
          stages[i] = [ stage |-> "persistence", symbol |-> "BTC", write |-> FALSE ]

\* C17: a handler runs ingestion first and the broadcast signal last, and in
\* between the alert gate of a symbol before its persistence throttle.
C17_PipelineOrder ==
    stages # << >> =>
        /\ \A i, j \in 1..Len(stages) :
              (stages[i].stage = "ingestion" /\ stages[j].stage # "ingestion")
                  => i < j
        /\ \A i \in 1..Len(stages) :
              stages[i].stage = "broadcast" <=> i = Len(stages)
        /\ \A i, j \in 1..Len(stages) :
              ( /\ stages[i].stage = "persistence"
                /\ stages[j].stage = "alert"
                /\ stages[i].symbol = stages[j].symbol )
              => j < i

\* C18: a handler issues a storage write, metric or alert, only for a symbol
\* it has ingested a quote for.
C18_RecomputeOneSymbol ==
    \A i \in 1..Len(stages) :
        (stages[i].stage \in { "persistence", "alert" } /\ stages[i].write)
            => \E j \in 1..Len(stages) :
                  stages[j].stage = "ingestion" /\ stages[j].symbol = stages[i].symbol

----------------------------------------------------------------------------
(* Claims on start and stop                                                *)

\* C19: however often startScheduler() is called, each connector has one
\* handler, so that an event is ingested once, and a venue has at most one
\* push connection and one poll timer.
C19_StartIdempotent ==
    /\ \A ex \in DOMAIN scheduler.listeners : scheduler.listeners[ex] <= 1
    /\ scheduler.sockets <= 1
    /\ scheduler.intervals <= 2
    /\ inbox = << >>

StopOrders ==
    { q \in [ 1..Len(StopOrder) -> Range(StopOrder) ] :
        \A i, j \in 1..Len(StopOrder) : i # j => q[i] # q[j] }

Stopped(sch) ==
    IF impl = "ts" THEN sch.running = { }
    ELSE ~sch.paradexWS /\ ~sch.lighterInterval /\ ~sch.vestInterval

\* The socket, the poll timer and the reconnect timers of a connector.
Wiring(h) ==
    [ ws |-> h.ws, sockets |-> h.sockets, isWsConnected |-> h.isWsConnected,
      fallbackActive |-> h.fallbackActive, reconnectAttempts |-> h.reconnectAttempts,
      reconnects |-> h.reconnects ]

\* No connector of ts holds a socket, counts as connected or polls.
Idle(hyb) ==
    impl = "ts" =>
        \A c \in Connectors :
            hyb[c].ws = 0 /\ ~hyb[c].isWsConnected /\ ~hyb[c].fallbackActive

\* C20: stopScheduler() leaves the connectors stopped whatever the order it
\* stops them in, and a call that finds them stopped (a second call, or a
\* call before any start) changes nothing.
C20_StopIdempotent ==
    [][ stopScheduler =>
          /\ Stopped(scheduler') /\ Idle(hybrid')
          /\ \A q \in StopOrders :
                stopIn(q, scheduler) = stopIn(StopOrder, scheduler)
          /\ stopIn(StopOrder, scheduler') = scheduler'
          /\ impl = "ts" =>
                \A c \in Connectors :
                    Wiring(stopCall(c, hybrid'[c])) = Wiring(hybrid'[c])
          /\ (Stopped(scheduler) /\ Idle(hybrid)) =>
                /\ stopIn(StopOrder, scheduler) = scheduler
                /\ \A c \in Connectors : Wiring(hybrid'[c]) = Wiring(hybrid[c])
                /\ UNCHANGED << polls, adapter, push, vestPull, fetching, impl, now, started, PRICE_CACHE, wsBroadcaster,
                                lastDbSave, lastBroadcastTime, broadcastPending,
                                timers, alertCache, dbQueue, alerts, events,
                                saveAlertResult, failed, sink, win, ignored,
                                inbox, priceMetrics >>
      ]_vars

\* Started, then stopped twice.
C20_Witness ==
    /\ started
    /\ scheduler.stops = 2
    /\ Stopped(scheduler)

\* C22: once stopScheduler() has returned, and until the next start, no
\* late REST response changes the price cache or issues a metric write, an
\* alert write or a broadcast.
C22_LateResponseDiscarded ==
    [][ (started /\ Stopped(scheduler) /\ Stopped(scheduler')) =>
            UNCHANGED << PRICE_CACHE, lastDbSave, dbQueue, alerts, sink,
                         lastBroadcastTime, broadcastPending, timers >>
      ]_vars

----------------------------------------------------------------------------
(* Claims on the pull adapters                                             *)

\* A record of a perpetual market that trades, in the venue's spelling of an
\* allow-listed symbol, with both prices numbers above zero and, for Vest,
\* an answered depth request.
WellFormed(venue, m) ==
    /\ \E base \in Allowed : m.symbol = WireSymbol(venue, base)
    /\ m.bid > 0 /\ m.ask > 0
    /\ m.depth = "ok"
    /\ m.market_type = "perp" /\ m.active /\ m.status = WireStatus(venue)

QuoteOfRecord(m) == [ symbol |-> m.symbol[1], bid |-> m.bid, ask |-> m.ask ]

\* C23: fetchMarkets() never throws; a failed request gives an empty result;
\* and for Vest, when no ticker is malformed, every symbol whose depth
\* request is answered keeps its quote whatever happens to the depth requests
\* of the others.
C23_FailureBecomesEmpty ==
    adapter # << >> =>
        /\ ~adapter.threw
        /\ ~adapter.response.ok => adapter.result = << >>
        /\ ( /\ adapter.venue = "vest"
             /\ \A i \in 1..Len(adapter.response.records) :
                   adapter.response.records[i].symbol # << >> )
           => \A i \in 1..Len(adapter.response.records) :
                 WellFormed("vest", adapter.response.records[i])
                     => QuoteOfRecord(adapter.response.records[i]) \in Range(adapter.result)

\* The depth request of BTC fails and ETH keeps its quote.
C23_Witness ==
    /\ adapter # << >>
    /\ adapter.venue = "vest"
    /\ adapter.response.records =
          << Rec("vest", WireSymbol("vest", "BTC"), 1001, 1004, "fail"),
             Rec("vest", WireSymbol("vest", "ETH"), 1001, 1003, "ok") >>
    /\ adapter.result = << [ symbol |-> "ETH", bid |-> 1001, ask |-> 1003 ] >>

\* C24: whatever malformed records an answered response holds, every
\* well-formed allow-listed record of it yields its quote, for every adapter.
C24_MalformedSkipped ==
    (adapter # << >> /\ adapter.response.ok) =>
        \A i \in 1..Len(adapter.response.records) :
            WellFormed(adapter.venue, adapter.response.records[i])
                => QuoteOfRecord(adapter.response.records[i]) \in Range(adapter.result)

----------------------------------------------------------------------------
(* Claims on the hybrid connectors                                           *)

Live(h) == { i \in 1..Len(h.sockets) : h.sockets[i] \in { "connecting", "open" } }

\* C21: after stop() has returned the connector emits no 'update' event,
\* holds no pending reconnect timer and no poll timer, and has no push
\* connection open or being opened; the socket events that follow stop()'s
\* own close() schedule no reconnect and start no fallback.
C21_StopIsFinal ==
    \A c \in Connectors :
        hybrid[c].stopped =>
            /\ hybrid[c].last.emits = 0
            /\ hybrid[c].reconnects = << >>
            /\ ~hybrid[c].fallbackActive
            /\ Live(hybrid[c]) = { }

\* C25: after every error or close event of a push socket of a connector
\* that has not been stopped, fallback polling is running; after a close
\* event a reconnect is pending unless the attempts are exhausted.
C25_OutageStartsFallback ==
    LET h == hybrid["paradex"]
    IN (~h.stopped /\ h.last.event \in { "error", "close" }) =>
           /\ h.fallbackActive
           /\ h.last.event = "close" => (h.reconnects # << >> \/ h.exhausted)

\* C26: every pending reconnect was scheduled as attempt k in 1..5 with
\* delay min(3000 * 2^(k-1), 30000): 3000, 6000, 12000, 24000, 30000;
\* reconnectAttempts stays within 0..maxReconnectAttempts; a step that
\* finds the counter at the maximum schedules no reconnect.
C26_Backoff ==
    [][ LET h == hybrid["paradex"]
            after == hybrid'["paradex"]
            Table == << 3000, 6000, 12000, 24000, 30000 >>
        IN /\ after.reconnectAttempts \in 0..maxReconnectAttempts
           /\ \A k \in 1..Len(after.reconnects) :
                /\ after.reconnects[k].attempt \in 1..maxReconnectAttempts
                /\ after.reconnects[k].delay = Table[after.reconnects[k].attempt]
           /\ h.reconnectAttempts = maxReconnectAttempts =>
                Len(after.reconnects) <= Len(h.reconnects)
      ]_vars

\* The fifth consecutive reconnect is pending with the capped delay.
C26_Witness ==
    /\ hybrid["paradex"].starts = 1
    /\ hybrid["paradex"].reconnects = << [ attempt |-> 5, delay |-> 30000 ] >>

\* C27: once the reconnect attempts are exhausted, and until stop() or a
\* later start(), fallback polling is active, the push stream is not
\* connected, and no reconnect timer is pending.
C27_ExhaustedStaysInFallback ==
    LET h == hybrid["paradex"]
    IN h.exhausted =>
           /\ h.fallbackActive
           /\ ~h.isWsConnected
           /\ h.reconnects = << >>

\* C28: after the open event of a push socket the connector is connected
\* (isWsConnected), fallback polling is cancelled and reconnectAttempts is
\* 0, whatever the counter and fallbackActive were before.
C28_OpenResets ==
    LET h == hybrid["paradex"]
    IN h.last.event = "open" =>
           /\ h.isWsConnected
           /\ ~h.fallbackActive
           /\ h.reconnectAttempts = 0

\* A socket has just opened after three failed attempts, with fallback
\* polling running until then.
C28_Witness ==
    LET h == hybrid["paradex"]
    IN /\ h.last = [ event |-> "open", emits |-> 0, attempts |-> 3, fallback |-> TRUE ]
       /\ h.starts = 1
       /\ h.isWsConnected /\ ~h.fallbackActive /\ h.reconnectAttempts = 0

\* C29: the push stream is never connected while the fallback poll timer is
\* active, in any reachable state of the hybrid connector.
C29_PushPullExclusive ==
    ~(hybrid["paradex"].isWsConnected /\ hybrid["paradex"].fallbackActive)

\* C30: a connector without push capability (Vest, Extended) is in
\* FallbackPull from start() until stop(): it never has a socket, is never
\* connected by push, and never schedules a reconnect.
C30_PullOnly ==
    \A c \in { "vest", "extended" } :
        LET h == hybrid[c]
        IN /\ h.sockets = << >> /\ h.ws = 0
           /\ ~h.isWsConnected
           /\ h.reconnects = << >> /\ h.reconnectAttempts = 0
           /\ (h.starts > 0 /\ ~h.stopped) => h.fallbackActive

\* Both REST-only connectors are started and polling; Vest has just emitted
\* the quote of a poll.
C30_Witness ==
    /\ hybrid["vest"].last.event = "poll" /\ hybrid["vest"].last.emits = 1
    /\ hybrid["vest"].fallbackActive /\ hybrid["extended"].fallbackActive
    /\ hybrid["extended"].last.event = "start"

----------------------------------------------------------------------------
(* Claims on the throttle, the timers and the read side                      *)

\* The handler call of this step has signalled the broadcast throttle.
Signalled == stages' # << >> /\ stages'[Len(stages')].stage = "broadcast"

\* C34: a cache-change signal that finds no trailing broadcast pending and
\* no broadcast within the last window hands the snapshot to the registered
\* sink in the same call and records the time, and schedules nothing; at most
\* one trailing timer is pending at any moment, due at the end of the window
\* of the last broadcast; a signal that finds it pending schedules nothing.
C34_LeadingAndSingleTrailing ==
    [][ /\ Len(timers') <= 1
        /\ timers' # << >> => timers' = << lastBroadcastTime' + BROADCAST_THROTTLE >>
        /\ (Signalled /\ ~broadcastPending
              /\ now - lastBroadcastTime >= BROADCAST_THROTTLE) =>
                /\ timers' = timers
                /\ wsBroadcaster =>
                     /\ sink'.last = now
                     /\ sink'.snapshot = getPriceCache(PRICE_CACHE')
                     /\ lastBroadcastTime' = now
        /\ (Signalled /\ broadcastPending) =>
                UNCHANGED << timers, lastBroadcastTime, broadcastPending >>
      ]_vars

\* Shutdown with the throttle running: quotes arrive only while the
\* connectors run, the clock moves in fine steps, a due trailing timer fires.
NextShutdown ==
    \/ setWebSocketBroadcaster
    \/ ~started /\ startScheduler
    \/ ~started /\ startSchedulerEnter(FALSE)
    \/ \E i \in 1..MaxStarts : ~Returned /\ wsOpen(i)
    \/ \E i \in 1..MaxStarts : startSchedulerResume(i)
    \/ started /\ Returned /\ stopScheduler
    \/ \E f \in LifeFeed :
          f[1] \in scheduler.running /\ Returned /\ handleUpdate(f, FALSE)
    \/ \E m \in Batches(LifeFeed, "paradex") :
          ~Stopped(scheduler) /\ handleParadexData(m, FALSE)
    \/ \E m \in Batches(LifeFeed, "vest") :
          ~Stopped(scheduler) /\ updateVestData(m, FALSE)
    \/ \E i \in 1..Len(timers) : trailingTimer(i)
    \/ TickFine

SpecShutdown == Init /\ [][NextShutdown]_vars

\* C35: once stopScheduler() has returned, a trailing broadcast timer that
\* was scheduled before the stop and fires after it does not invoke the
\* sink and changes neither lastBroadcastTime nor broadcastPending.
C35_NoLateTimer ==
    [][ (started /\ Stopped(scheduler) /\ Len(timers') < Len(timers)) =>
            UNCHANGED << sink, lastBroadcastTime, broadcastPending >>
      ]_vars

\* C36: a handler call that finds the spread of symbol S at or above the
\* threshold writes an alert row for S to storage if and only if no alert
\* row for S was written to storage during the 60000 ms before the call
\* (a write that is pending, one that has succeeded or one that has failed);
\* the rows of other symbols play no part, and a call exactly 60000 ms after
\* the last row of S writes again.
C36_CooldownPerSymbol ==
    [][ stages' # << >> =>
          \A s \in Range(Alerting(PRICE_CACHE')) :
              (\E i \in (Len(dbQueue) + 1)..Len(dbQueue') :
                   dbQueue'[i].symbol = s /\ dbQueue'[i].timestamp = now)
              <=> /\ ~\E r \in Issued :
                         r.symbol = s /\ now - r.timestamp < CACHE_TTL
                  /\ ~(failed[s].at # 0 /\ now - failed[s].at < CACHE_TTL)
      ]_vars

\* The broadcast throttle with a sink that may throw whenever it is called:
\* setWebSocketBroadcaster() takes any function, and neither
\* performBroadcast() nor its callers catch what the sink throws.  The
\* connectors deliver SinkFeed and the clock moves in fine steps.
NextSink ==
    \/ setWebSocketBroadcaster
    \/ ~started /\ startScheduler
    \/ ~started /\ startSchedulerEnter(FALSE)
    \/ \E i \in 1..MaxStarts : ~Returned /\ wsOpen(i)
    \/ \E i \in 1..MaxStarts : startSchedulerResume(i)
    \/ \E f \in SinkFeed : \E threw \in BOOLEAN : Returned /\ handleUpdate(f, threw)
    \/ \E m \in Batches(SinkFeed, "paradex") : \E threw \in BOOLEAN :
          handleParadexData(m, threw)
    \/ \E m \in Batches(SinkFeed, "vest") : \E threw \in BOOLEAN :
          updateVestData(m, threw)
    \/ \E m \in Batches(SinkFeed, "lighter") : \E threw \in BOOLEAN :
          updateLighterData(m, threw)
    \/ \E i \in 1..Len(timers) : trailingTimer(i)
    \/ \E i \in 1..Len(timers) : trailingTimerThrows(i)
    \/ TickFine

SpecSink == Init /\ [][NextSink]_vars

\* C37: broadcastPending is set exactly while a trailing timer is pending:
\* once the timer has run the flag is clear again, also when the sink threw
\* during the trailing broadcast.
C37_ThrottleNotStuck ==
    broadcastPending <=> timers # << >>

\* C39: at every moment the best bid and the best ask that getPriceCache()
\* returns for a symbol are those of quotes that are, at that moment, no
\* older than the staleness window (ts).
C39_SnapshotFresh ==
    impl = "ts" =>
        \A s \in DOMAIN getPriceCache(PRICE_CACHE) :
            LET pair == getPriceCache(PRICE_CACHE)[s]
            IN /\ pair.bestBid > 0 =>
                    /\ pair.bestBidEx \in DOMAIN pair.quotes
                    /\ now - pair.quotes[pair.bestBidEx].timestamp <= STALE_THRESHOLD
               /\ pair.bestAsk > 0 =>
                    /\ pair.bestAskEx \in DOMAIN pair.quotes
                    /\ now - pair.quotes[pair.bestAskEx].timestamp <= STALE_THRESHOLD

----------------------------------------------------------------------------
(* Claims on the push services and on the Vest poll                          *)

\* C31: an open push connection on which no message arrives is sent a
\* keep-alive, and when no message answers it the connection is given up for
\* a reconnect: it does not stay open through keep-alive after keep-alive
\* with no message in between.
C31_SilentConnectionDropped ==
    \A svc \in PushServices :
        push[svc].socket = "open" => push[svc].unanswered < MaxPings

\* C32: the depth requests of Vest in flight, over all the fetchMarkets()
\* invocations that have not returned, never exceed CONCURRENCY, and an
\* invocation sends its next batch only after a sleep of BATCH_DELAY.
C32_BoundedDepthRequests ==
    LET RECURSIVE InFlight(_)
        InFlight(v) == IF v = << >> THEN 0 ELSE Head(v).inflight + InFlight(Tail(v))
    IN /\ InFlight(vestPull) <= CONCURRENCY
       /\ \A i \in 1..Len(vestPull) :
            /\ vestPull[i].inflight <= CONCURRENCY
            /\ vestPull[i].phase = "sleep" =>
                  vestPull[i].inflight = 0 /\ vestPull[i].delay = BATCH_DELAY

\* C38: a hybrid connector never has more than one push socket connecting
\* or open and never more than one reconnect timer pending, and the close
\* event of a socket that is no longer this.ws neither clears isWsConnected
\* of the current socket nor schedules a reconnect.
C38_OneSocketOneTimer ==
    [][ LET h == hybrid["paradex"]
            after == hybrid'["paradex"]
        IN /\ Cardinality(Live(after)) <= 1
           /\ Len(after.reconnects) <= 1
           /\ \A i \in 1..Len(h.sockets) :
                (wsClose(i) /\ i # h.ws /\ h.ws # 0) =>
                    /\ after.isWsConnected = h.isWsConnected
                    /\ after.reconnects = h.reconnects
      ]_vars

\* The largest delay of each variant.
DelayCap(variant) == IF variant = "VestWS" THEN 15000 ELSE RECONNECT_CAP

DelayOf(variant, k) ==
    IF variant = "Paradex" THEN ReconnectDelay(k) ELSE PushDelay(variant, k)

AttemptsOf(variant) ==
    IF variant = "Paradex" THEN maxReconnectAttempts ELSE maxReconnectAttemptsWS

\* C40: in every variant the reconnect delay does not fall as the attempt
\* number grows and stays within its cap: Paradex and Lighter WS
\* min(3000 * 2^(k-1), 30000), Vest WS 3000, 6000, 9000, 12000, 15000 and
\* 15000 from then on, and every pending reconnect carries the delay of its
\* attempt.  When the attempts are used up, Lighter WS has a timer of 60000
\* pending that resets the counter and connects, so a disconnected Lighter WS
\* always has a connect pending (a timer, or a connect() that waits for the
\* market indices); Vest WS has nothing pending.
C40_BackoffShape ==
    /\ \A variant \in { "Paradex", "LighterWS", "VestWS" } :
         \A k \in 1..AttemptsOf(variant) :
            /\ DelayOf(variant, k) <= DelayCap(variant)
            /\ k > 1 => DelayOf(variant, k - 1) <= DelayOf(variant, k)
            /\ variant # "VestWS" =>
                 DelayOf(variant, k) = Min(3000 * 2 ^ (k - 1), 30000)
            /\ variant = "VestWS" =>
                 DelayOf(variant, k) = IF k <= 5 THEN 3000 * k ELSE 15000
    /\ \A svc \in PushServices :
         LET p == push[svc]
         IN /\ p.reconnectAttempts \in 0..maxReconnectAttemptsWS
            /\ \A i \in 1..Len(p.reconnects) :
                 LET t == p.reconnects[i]
                 IN /\ t.attempt >= 1 =>
                         /\ t.attempt = p.reconnectAttempts
                         /\ t.delay = DelayOf(svc, t.attempt)
                         /\ ~t.reset
                    /\ t.reset =>
                         /\ t.delay = RETRY_DELAY
                         /\ p.reconnectAttempts = maxReconnectAttemptsWS
            /\ (p.begun /\ p.socket = "none") =>
                 IF svc = "LighterWS"
                 THEN Len(p.reconnects) + p.awaiting = 1
                 ELSE /\ Len(p.reconnects) <= 1
                      /\ p.reconnects = << >> =>
                            p.reconnectAttempts = maxReconnectAttemptsWS

\* Both services have used up their attempts: Lighter WS waits for its
\* retry, Vest WS has nothing pending.
C40_Witness ==
    /\ push["LighterWS"].reconnects =
         << [ attempt |-> 0, delay |-> RETRY_DELAY, reset |-> TRUE ] >>
    /\ push["VestWS"].begun /\ push["VestWS"].socket = "none"
    /\ push["VestWS"].reconnects = << >>
    /\ push["VestWS"].reconnectAttempts = maxReconnectAttemptsWS

----------------------------------------------------------------------------
(* Claims on startScheduler()                                              *)

\* C33: a startScheduler() that has started Paradex goes on to start Vest,
\* Lighter and Extended and returns, whether the socket of Paradex opens,
\* fails, closes without having opened, or does nothing at all.
C33_StartCompletes ==
    (scheduler.calls # << >>)
        ~> (scheduler.calls = << >> /\ scheduler.running = Exchanges("ts"))

\* startScheduler() has returned with the socket of Paradex never opened and
\* silent: the wait was ended by the time-out, and all connectors poll.
C33_Witness ==
    /\ started /\ scheduler.calls = << >>
    /\ scheduler.running = Exchanges("ts")
    /\ hybrid["paradex"].starts = 1 /\ hybrid["paradex"].reconnectAttempts = 0
    /\ hybrid["paradex"].sockets = << "connecting" >>
    /\ \A c \in Connectors : hybrid[c].fallbackActive

============================================================================
